---- MODULE Spec2Model ----
(***************************************************************************)
(* Control plane of the media path core (package mtx): the per-path actor  *)
(* PathHandler (path.go) and the registry pathManager (path_manager.go),   *)
(* together with the callers that go through the registry.                 *)
(*                                                                         *)
(* A handler of an actor is one action.  The rendezvous an actor makes     *)
(* with the registry inside a handler (pathReady, pathNotReady, closePath) *)
(* is folded into the handler's action: the handler needs the registry at  *)
(* its select, or the actor's own context cancelled (then the notification *)
(* is dropped, as the select in pathManager.pathReady does).               *)
(***************************************************************************)
EXTENDS Integers, Sequences, FiniteSets, TLC

\* ------------------------------------------------------------------ bounds

MaxReadersK == 1      \* the MaxReaders value K of the configurations that limit readers
MaxOps == 3           \* calls the registry takes on in one run (routed requests, reloads)
MaxActors == 3        \* actors ever created in one run
MaxReloads == 1       \* ReloadPathConfs calls among them

Publishers == {"p1", "p2"}
Readers == {"r1", "r2"}
Clients == Publishers \cup Readers
Names == {"cam", "none"}
ActorIds == 1..MaxActors

\* ------------------------------------------------------------------ configuration

BaseConf ==
  [name |-> "cam", regexp |-> FALSE, source |-> "publisher", sourceOnDemand |-> FALSE,
   runOnDemand |-> "", overridePublisher |-> FALSE, maxReaders |-> 0,
   record |-> FALSE, recordPath |-> "rec1", fallback |-> "", sourceRedirect |-> "",
   rpiCameraBrightness |-> "b1"]

ConfPub == [BaseConf EXCEPT !.maxReaders = MaxReadersK, !.fallback = "/fb"]
ConfPubOverride == [BaseConf EXCEPT !.overridePublisher = TRUE, !.record = TRUE]
ConfPubOnDemand == [BaseConf EXCEPT !.runOnDemand = "cmd"]
ConfStaticOnDemand ==
  [BaseConf EXCEPT !.source = "rtsp://src", !.sourceOnDemand = TRUE, !.maxReaders = MaxReadersK]
ConfStatic == [BaseConf EXCEPT !.source = "rtsp://src", !.record = TRUE]
ConfRedirect == [BaseConf EXCEPT !.source = "redirect", !.sourceRedirect = "rtsp://other"]

Pat(c) == [c EXCEPT !.name = "~^cam", !.regexp = TRUE]

HasStaticSource(c) == c.source = "rtsp://src"
HasOnDemandStaticSource(c) == HasStaticSource(c) /\ c.sourceOnDemand
HasOnDemandPublisher(c) == c.runOnDemand # ""

\* A configuration set is a function from configuration names to configurations.
OneConf(c) == [n \in {c.name} |-> c]
NoConfs == [n \in {} |-> BaseConf]

\* FindPathConf: the exact name first, then the pattern configurations.
\* The one pattern of the model, "~^cam", matches the name "cam" only.
RegexpMatches(c, name) == c.regexp /\ c.name = "~^cam" /\ name = "cam"

FindPathConfFound(confs, name) ==
  name \in DOMAIN confs \/ \E n \in DOMAIN confs : RegexpMatches(confs[n], name)

FindPathConf(confs, name) ==
  IF name \in DOMAIN confs THEN confs[name]
  ELSE confs[CHOOSE n \in DOMAIN confs : RegexpMatches(confs[n], name)]

\* ------------------------------------------------------------------ results

NilStream == [parent |-> "nil", ok |-> FALSE]
ResStream(s) == [err |-> "", stream |-> s, redirect |-> ""]
ResRedirect(u) == [err |-> "", stream |-> NilStream, redirect |-> u]
ResErr(e) == [err |-> e, stream |-> NilStream, redirect |-> ""]

\* ------------------------------------------------------------------ the path actor

\* Transient outputs of a handler: replies sent on req.Res, notifications sent
\* to the registry, publishers and readers closed, on-demand activations
\* notified to the hook observer as requested (started) and as stopped.
Reply(pa, req, r) ==
  [pa EXCEPT !.out = Append(@, [to |-> req.author, id |-> req.id, res |-> r])]
Notify(pa, n) == [pa EXCEPT !.notes = Append(@, n)]
\* The order in which a handler did what it did.
Did(pa, what) == [pa EXCEPT !.log = Append(@, what)]

isReady(pa) == pa.stream # NilStream

PathHandler(name, conf) ==
  [name |-> name, conf |-> conf, phase |-> "run", cancelled |-> FALSE,
   source |-> IF conf.source = "redirect" THEN "redirect"
              ELSE IF HasStaticSource(conf) THEN "static" ELSE "nil",
   srcRunning |-> HasStaticSource(conf) /\ ~conf.sourceOnDemand,
   srcReady |-> FALSE,
   stream |-> NilStream, recorder |-> "nil",
   onUnDemandHook |-> FALSE, onNotReadyHook |-> FALSE,
   readers |-> {},
   describeRequestsOnHold |-> <<>>, readerAddRequestsOnHold |-> <<>>,
   onDemandStaticSourceState |-> "initial",
   onDemandStaticSourceReadyTimer |-> FALSE, onDemandStaticSourceCloseTimer |-> FALSE,
   onDemandPublisherState |-> "initial",
   onDemandPublisherReadyTimer |-> FALSE, onDemandPublisherCloseTimer |-> FALSE,
   chReloadConf |-> {},
   out |-> <<>>, notes |-> <<>>, closed |-> {}, started |-> 0, stopped |-> 0,
   log |-> <<>>, panicked |-> FALSE]

startRecording(pa) == Did([pa EXCEPT !.recorder = pa.conf.recordPath], "startRecording")

\* stream.Initialize() fails when ok is FALSE; pa.stream is assigned before it.
setReady(pa, ok) ==
  LET p1 == [pa EXCEPT !.stream = [parent |-> pa.source, ok |-> ok]]
      p2 == IF p1.conf.record THEN startRecording(p1) ELSE p1
  IN IF ~ok THEN p1
     ELSE Notify([p2 EXCEPT !.onNotReadyHook = TRUE], "ready")

\* setNotReady without the loop of lines 750-752 that removes the readers.
setNotReadyKeepReaders(pa) ==
  LET p1 == Did(Notify(pa, "notReady"), "pathNotReady")
      p3 == Did(p1, "onNotReadyHook")
      p4 == IF pa.recorder = "nil" THEN p3
            ELSE Did([p3 EXCEPT !.recorder = "nil"], "recorder")
  IN IF ~pa.onNotReadyHook THEN [p1 EXCEPT !.panicked = TRUE]
     ELSE Did([p4 EXCEPT !.stream = NilStream], "stream")

\* pa.onNotReadyHook() is a call of a nil func when the path was never ready.
setNotReady(pa) ==
  LET notReady(p) ==
        LET p1 == Did(Notify(p, "notReady"), "pathNotReady")
            p2 == IF p.readers = {} THEN p1
                  ELSE Did([p1 EXCEPT !.readers = {}, !.closed = @ \cup p.readers], "readers")
            p3 == Did(p2, "onNotReadyHook")
            p4 == IF p.recorder = "nil" THEN p3
                  ELSE Did([p3 EXCEPT !.recorder = "nil"], "recorder")
        IN IF ~p.onNotReadyHook THEN [p2 EXCEPT !.panicked = TRUE]
           ELSE Did([p4 EXCEPT !.stream = NilStream], "stream")
  IN CHOOSE r \in {notReady(p) : p \in {pa}} : TRUE

executeRemovePublisher(pa) ==
  LET p1 == IF pa.stream # NilStream THEN setNotReady(pa) ELSE pa
  IN [p1 EXCEPT !.source = "nil"]

onDemandStaticSourceStart(pa) ==
  [pa EXCEPT !.srcRunning = TRUE, !.started = @ + 1,
             !.onDemandStaticSourceReadyTimer = TRUE,
             !.onDemandStaticSourceState = "waitingReady"]

onDemandStaticSourceScheduleClose(pa) ==
  [pa EXCEPT !.onDemandStaticSourceCloseTimer = TRUE,
             !.onDemandStaticSourceState = "closing"]

\* onDemandStaticSourceStop without the Stop of the idle-close timer (652-655).
onDemandStaticSourceStopKeepTimer(pa) ==
  [pa EXCEPT !.onDemandStaticSourceState = "initial",
             !.srcRunning = FALSE, !.srcReady = FALSE, !.stopped = @ + 1]

onDemandStaticSourceStop(pa) ==
  [pa EXCEPT !.onDemandStaticSourceCloseTimer =
                 IF pa.onDemandStaticSourceState = "closing" THEN FALSE ELSE @,
             !.onDemandStaticSourceState = "initial",
             !.srcRunning = FALSE, !.srcReady = FALSE, !.stopped = @ + 1]

onDemandPublisherStart(pa) ==
  [pa EXCEPT !.onUnDemandHook = TRUE, !.started = @ + 1,
             !.onDemandPublisherReadyTimer = TRUE,
             !.onDemandPublisherState = "waitingReady"]

onDemandPublisherScheduleClose(pa) ==
  [pa EXCEPT !.onDemandPublisherCloseTimer = TRUE,
             !.onDemandPublisherState = "closing"]

\* pa.onUnDemandHook(reason) is a call of a nil func when no launch is running.
onDemandPublisherStop(pa) ==
  LET p1 == [pa EXCEPT !.onDemandPublisherCloseTimer =
                          IF pa.onDemandPublisherState = "closing" THEN FALSE ELSE @]
  IN IF ~pa.onUnDemandHook THEN [p1 EXCEPT !.panicked = TRUE]
     ELSE [p1 EXCEPT !.onUnDemandHook = FALSE, !.onDemandPublisherState = "initial",
                     !.stopped = @ + 1]

\* addReaderPost without the MaxReaders test of lines 834-837.
addReaderPostUnlimited(pa, req) ==
  IF req.author \in pa.readers THEN Reply(Did(pa, "isReader"), req, ResStream(pa.stream))
  ELSE Reply([pa EXCEPT !.readers = @ \cup {req.author}], req, ResStream(pa.stream))

\* addReaderPost with the MaxReaders test of lines 834-837 before the test of
\* lines 826-832 for an author that is a reader already.
addReaderPostLimitFirst(pa, req) ==
  IF pa.conf.maxReaders # 0 /\ Cardinality(pa.readers) >= pa.conf.maxReaders
  THEN Reply(pa, req, ResErr("maximum reader count reached"))
  ELSE IF req.author \in pa.readers
  THEN Reply(Did(pa, "isReader"), req, ResStream(pa.stream))
  ELSE addReaderPostUnlimited(pa, req)

addReaderPost(pa, req) ==
  IF req.author \in pa.readers THEN Reply(Did(pa, "isReader"), req, ResStream(pa.stream))
  ELSE IF pa.conf.maxReaders # 0 /\ Cardinality(pa.readers) >= pa.conf.maxReaders
  THEN Reply(pa, req, ResErr("maximum reader count reached"))
  ELSE
    LET p1 == [pa EXCEPT !.readers = @ \cup {req.author}]
        p2 == IF HasOnDemandStaticSource(p1.conf)
              THEN IF p1.onDemandStaticSourceState = "closing"
                   THEN [p1 EXCEPT !.onDemandStaticSourceState = "ready",
                                   !.onDemandStaticSourceCloseTimer = FALSE]
                   ELSE p1
              ELSE IF HasOnDemandPublisher(p1.conf)
                      /\ p1.onDemandPublisherState = "closing"
                   THEN [p1 EXCEPT !.onDemandPublisherState = "ready",
                                   !.onDemandPublisherCloseTimer = FALSE]
                   ELSE p1
    IN Reply(p2, req, ResStream(p2.stream))

RECURSIVE ReplyAll(_, _, _)
ReplyAll(pa, q, r) ==
  IF q = <<>> THEN pa ELSE ReplyAll(Reply(pa, Head(q), r), Tail(q), r)

RECURSIVE AddReaderPostAll(_, _)
AddReaderPostAll(pa, q) ==
  IF q = <<>> THEN pa ELSE AddReaderPostAll(addReaderPost(pa, Head(q)), Tail(q))

\* consumeOnHoldRequests without its two "= nil" assignments.
consumeOnHoldRequestsKeep(pa) ==
  LET p1 == ReplyAll(pa, pa.describeRequestsOnHold, ResStream(pa.stream))
  IN AddReaderPostAll(p1, p1.readerAddRequestsOnHold)

consumeOnHoldRequests(pa) ==
  LET p1 == ReplyAll(pa, pa.describeRequestsOnHold, ResStream(pa.stream))
      p2 == [p1 EXCEPT !.describeRequestsOnHold = <<>>]
      p3 == AddReaderPostAll(p2, p2.readerAddRequestsOnHold)
  IN [p3 EXCEPT !.readerAddRequestsOnHold = <<>>]

\* The two loops of the ready-timer handlers.
failOnHoldRequests(pa) ==
  LET p1 == ReplyAll(pa, pa.describeRequestsOnHold, ResErr("timed out"))
      p2 == [p1 EXCEPT !.describeRequestsOnHold = <<>>]
      p3 == ReplyAll(p2, p2.readerAddRequestsOnHold, ResErr("timed out"))
  IN [p3 EXCEPT !.readerAddRequestsOnHold = <<>>]

\* doOnDemandStaticSourceReadyTimer without the onDemandStaticSourceStop of line 334.
doOnDemandStaticSourceReadyTimerNoStop(pa) ==
  failOnHoldRequests([pa EXCEPT !.onDemandStaticSourceReadyTimer = FALSE])

doOnDemandStaticSourceReadyTimer(pa) ==
  onDemandStaticSourceStop(
    failOnHoldRequests([pa EXCEPT !.onDemandStaticSourceReadyTimer = FALSE]))

doOnDemandStaticSourceCloseTimer(pa) ==
  LET p1 == setNotReady([pa EXCEPT !.onDemandStaticSourceCloseTimer = FALSE])
  IN IF p1.panicked THEN p1 ELSE onDemandStaticSourceStop(p1)

doOnDemandPublisherReadyTimer(pa) ==
  onDemandPublisherStop(
    failOnHoldRequests([pa EXCEPT !.onDemandPublisherReadyTimer = FALSE]))

doOnDemandPublisherCloseTimer(pa) ==
  onDemandPublisherStop([pa EXCEPT !.onDemandPublisherCloseTimer = FALSE])

RecordFieldsDiffer(newConf, oldConf) ==
  newConf.record # oldConf.record \/ newConf.recordPath # oldConf.recordPath

\* doReloadConf without the recorder.Close() of lines 378-379.
doReloadConfKeepRecorder(pa, newConf) ==
  LET p1 == [pa EXCEPT !.conf = newConf]
  IN IF newConf.record /\ p1.stream # NilStream /\ p1.recorder = "nil"
     THEN startRecording(p1) ELSE p1

doReloadConf(pa, newConf) ==
  LET oldConf == pa.conf
      p1 == [pa EXCEPT !.conf = newConf]
      p2 == IF p1.recorder # "nil" /\ RecordFieldsDiffer(newConf, oldConf)
            THEN Did([p1 EXCEPT !.recorder = "nil"], "recorder") ELSE p1
  IN IF newConf.record /\ p2.stream # NilStream /\ p2.recorder = "nil"
     THEN startRecording(p2) ELSE p2

\* doSourceStaticSetReady without the consumeOnHoldRequests of line 400.
doSourceStaticSetReadyOnly(pa, ok) ==
  LET p1 == setReady(pa, ok)
  IN IF ~ok THEN p1
     ELSE IF HasOnDemandStaticSource(p1.conf)
     THEN [onDemandStaticSourceScheduleClose(
             [p1 EXCEPT !.onDemandStaticSourceReadyTimer = FALSE]) EXCEPT !.srcReady = TRUE]
     ELSE [p1 EXCEPT !.srcReady = TRUE]

doSourceStaticSetReady(pa, ok) ==
  LET p1 == setReady(pa, ok)
      p2 == IF HasOnDemandStaticSource(p1.conf)
            THEN onDemandStaticSourceScheduleClose(
                   [p1 EXCEPT !.onDemandStaticSourceReadyTimer = FALSE])
            ELSE p1
  IN IF ~ok THEN p1
     ELSE [consumeOnHoldRequests(p2) EXCEPT !.srcReady = TRUE]

doSourceStaticSetNotReady(pa) ==
  LET p1 == setNotReady([pa EXCEPT !.srcReady = FALSE])
  IN IF p1.panicked THEN p1
     ELSE IF HasOnDemandStaticSource(p1.conf) /\ p1.onDemandStaticSourceState # "initial"
     THEN onDemandStaticSourceStop(p1) ELSE p1

\* doDescribe with the fallback of lines 448-451 tried before the stream.
doDescribeFallbackFirst(pa, req) ==
  IF pa.source = "redirect" THEN Reply(pa, req, ResRedirect(pa.conf.sourceRedirect))
  ELSE IF pa.conf.fallback # "" THEN Reply(pa, req, ResRedirect(pa.conf.fallback))
  ELSE IF pa.stream # NilStream THEN Reply(pa, req, ResStream(pa.stream))
  ELSE IF HasOnDemandStaticSource(pa.conf)
  THEN LET p1 == IF pa.onDemandStaticSourceState = "initial"
                 THEN onDemandStaticSourceStart(pa) ELSE pa
       IN [p1 EXCEPT !.describeRequestsOnHold = Append(@, req)]
  ELSE IF HasOnDemandPublisher(pa.conf)
  THEN LET p1 == IF pa.onDemandPublisherState = "initial"
                 THEN onDemandPublisherStart(pa) ELSE pa
       IN [p1 EXCEPT !.describeRequestsOnHold = Append(@, req)]
  ELSE Reply(pa, req, ResErr("no stream available"))

doDescribe(pa, req) ==
  IF pa.source = "redirect" THEN Reply(pa, req, ResRedirect(pa.conf.sourceRedirect))
  ELSE IF pa.stream # NilStream THEN Reply(pa, req, ResStream(pa.stream))
  ELSE IF HasOnDemandStaticSource(pa.conf)
  THEN LET p1 == IF pa.onDemandStaticSourceState = "initial"
                 THEN onDemandStaticSourceStart(pa) ELSE pa
       IN [p1 EXCEPT !.describeRequestsOnHold = Append(@, req)]
  ELSE IF HasOnDemandPublisher(pa.conf)
  THEN LET p1 == IF pa.onDemandPublisherState = "initial"
                 THEN onDemandPublisherStart(pa) ELSE pa
       IN [p1 EXCEPT !.describeRequestsOnHold = Append(@, req)]
  ELSE IF pa.conf.fallback # "" THEN Reply(pa, req, ResRedirect(pa.conf.fallback))
  ELSE Reply(pa, req, ResErr("no stream available"))

doRemovePublisher(pa, req) ==
  IF pa.source = req.author THEN executeRemovePublisher(pa) ELSE pa

\* doAddPublisher without the test of lines 463-468 for the source kind.
doAddPublisherAnyKind(pa, req) ==
  IF pa.source # "nil" /\ ~pa.conf.overridePublisher
  THEN Reply(pa, req, ResErr("someone is already publishing"))
  ELSE LET p1 == setReady([pa EXCEPT !.source = req.author], req.ok)
       IN IF ~req.ok
          THEN Reply([p1 EXCEPT !.source = "nil"], req, ResErr("stream init failed"))
          ELSE Reply(consumeOnHoldRequests(p1), req, ResStream(p1.stream))

\* doAddPublisher without the test of lines 471-475 for a publisher in place.
doAddPublisherUnchecked(pa, req) ==
  IF pa.conf.source # "publisher"
  THEN Reply(pa, req, ResErr("source is not publisher"))
  ELSE LET p1 == setReady([pa EXCEPT !.source = req.author], req.ok)
       IN IF ~req.ok
          THEN Reply([p1 EXCEPT !.source = "nil"], req, ResErr("stream init failed"))
          ELSE Reply(consumeOnHoldRequests(p1), req, ResStream(p1.stream))

doAddPublisher(pa, req) ==
  IF pa.conf.source # "publisher"
  THEN Reply(pa, req, ResErr("source is not publisher"))
  ELSE IF pa.source # "nil" /\ ~pa.conf.overridePublisher
  THEN Reply(pa, req, ResErr("someone is already publishing"))
  ELSE
    LET p0 == IF pa.source # "nil"
              THEN executeRemovePublisher([pa EXCEPT !.closed = @ \cup {pa.source}])
              ELSE pa
        p1 == setReady([p0 EXCEPT !.source = req.author], req.ok)
        p2 == IF HasOnDemandPublisher(p1.conf) /\ p1.onDemandPublisherState # "initial"
              THEN onDemandPublisherScheduleClose(
                     [p1 EXCEPT !.onDemandPublisherReadyTimer = FALSE])
              ELSE p1
        p3 == consumeOnHoldRequests(p2)
    IN IF p0.panicked THEN p0
       ELSE IF ~req.ok THEN Reply([p1 EXCEPT !.source = "nil"], req, ResErr("stream init failed"))
       ELSE Reply(p3, req, ResStream(p3.stream))

\* doAddReader without the test of line 517 for the Initial state.
doAddReaderRestart(pa, req) ==
  IF pa.stream # NilStream THEN addReaderPost(pa, req)
  ELSE IF HasOnDemandStaticSource(pa.conf)
  THEN [onDemandStaticSourceStart(pa) EXCEPT !.readerAddRequestsOnHold = Append(@, req)]
  ELSE IF HasOnDemandPublisher(pa.conf)
  THEN [onDemandPublisherStart(pa) EXCEPT !.readerAddRequestsOnHold = Append(@, req)]
  ELSE Reply(pa, req, ResErr("no stream available"))

doAddReader(pa, req) ==
  IF pa.stream # NilStream THEN addReaderPost(pa, req)
  ELSE IF HasOnDemandStaticSource(pa.conf)
  THEN LET p1 == IF pa.onDemandStaticSourceState = "initial"
                 THEN onDemandStaticSourceStart(pa) ELSE pa
       IN [p1 EXCEPT !.readerAddRequestsOnHold = Append(@, req)]
  ELSE IF HasOnDemandPublisher(pa.conf)
  THEN LET p1 == IF pa.onDemandPublisherState = "initial"
                 THEN onDemandPublisherStart(pa) ELSE pa
       IN [p1 EXCEPT !.readerAddRequestsOnHold = Append(@, req)]
  ELSE Reply(pa, req, ResErr("no stream available"))

doRemoveReader(pa, req) ==
  LET p1 == [pa EXCEPT !.readers = @ \ {req.author}]
  IN IF p1.readers # {} THEN p1
     ELSE IF HasOnDemandStaticSource(p1.conf)
     THEN IF p1.onDemandStaticSourceState = "ready"
          THEN onDemandStaticSourceScheduleClose(p1) ELSE p1
     ELSE IF HasOnDemandPublisher(p1.conf) /\ p1.onDemandPublisherState = "ready"
     THEN onDemandPublisherScheduleClose(p1) ELSE p1

shouldClose(pa) ==
  /\ pa.conf.regexp
  /\ pa.source = "nil"
  /\ pa.readers = {}
  /\ pa.describeRequestsOnHold = <<>>
  /\ pa.readerAddRequestsOnHold = <<>>

\* The part of run() after closePath and ctxCancel, without the two loops of
\* lines 215-221 over the hold queues.
runCleanupNoReplies(pa) ==
  LET p1 == Did([pa EXCEPT !.onDemandStaticSourceReadyTimer = FALSE,
                           !.onDemandStaticSourceCloseTimer = FALSE,
                           !.onDemandPublisherReadyTimer = FALSE,
                           !.onDemandPublisherCloseTimer = FALSE], "timers")
      p4 == IF p1.stream # NilStream THEN setNotReady(p1) ELSE p1
  IN IF p4.panicked THEN p4 ELSE Did([p4 EXCEPT !.phase = "done"], "done")

\* The part of run() after closePath and ctxCancel.
runCleanup(pa) ==
  LET timers(p) == Did([p EXCEPT !.onDemandStaticSourceReadyTimer = FALSE,
                                 !.onDemandStaticSourceCloseTimer = FALSE,
                                 !.onDemandPublisherReadyTimer = FALSE,
                                 !.onDemandPublisherCloseTimer = FALSE], "timers")
      pending(p) ==
        LET p2 == ReplyAll(Did(p, "onUnInitHook"), p.describeRequestsOnHold,
                           ResErr("terminated"))
            p3 == ReplyAll(p2, p.readerAddRequestsOnHold, ResErr("terminated"))
        IN IF p.describeRequestsOnHold = <<>> /\ p.readerAddRequestsOnHold = <<>>
           THEN p3 ELSE Did(p3, "pending")
      notReady(p) == IF p.stream # NilStream THEN setNotReady(p) ELSE p
      source(p) ==
        IF p.panicked THEN p
        ELSE IF p.source = "static"
        THEN IF ~p.conf.sourceOnDemand \/ p.onDemandStaticSourceState # "initial"
             THEN Did([p EXCEPT !.srcRunning = FALSE, !.srcReady = FALSE], "source")
             ELSE p
        ELSE IF p.source \in Publishers
        THEN Did([p EXCEPT !.closed = @ \cup {p.source}], "source")
        ELSE p
      done(p) ==
        IF p.panicked THEN p
        ELSE Did([(IF p.onUnDemandHook THEN Did(p, "onUnDemandHook") ELSE p)
                    EXCEPT !.phase = "done"], "done")
  IN CHOOSE r \in {done(p5) : p5 \in {source(p4) : p4 \in
                    {notReady(p3) : p3 \in {pending(p1) : p1 \in {timers(pa)}}}}} : TRUE

\* ------------------------------------------------------------------ state

VARIABLES
  actors,     \* actor id -> PathHandler record (phase "none": not created yet)
  nextId,     \* the id the next created actor gets
  pathConfs,  \* pathManager.pathConfs
  paths,      \* pathManager.paths: name -> pathData (path 0: no entry)
  pm,         \* position of pathManager.run: at its select, or inside doReloadConf
  clients,    \* callers: publishers and readers
  reloads,    \* ReloadPathConfs calls made so far
  calls,      \* calls made to the registry so far; numbers the requests
  out,        \* what the last step did outside: replies, Close() calls, starts,
              \* calls of the HLS server, results of SetHLSServer and of the API calls
  crashed,    \* a goroutine panicked: the process is gone
  hlsServer,  \* pathManager.hlsServer is set
  api,        \* the caller of APIPathsList or APIPathsGet: its position and locals
  core,       \* Core: the path names of Core.Conf, the position of its loop, its context
  confAPI     \* MediaMTXAPI: the holder of its mutex and the callers of AddPathConfig

vars == <<actors, nextId, pathConfs, paths, pm, clients, reloads, calls, out, crashed,
          hlsServer, api, core, confAPI>>

NoActor == [PathHandler("", BaseConf) EXCEPT !.phase = "none"]
NoPath == [path |-> 0, ready |-> FALSE, confName |-> ""]
PmIdle == [pc |-> "idle", newPaths |-> NoConfs, todo |-> {}, waitFor |-> 0,
           confsToRecreate |-> {}, confsToReload |-> {}]
\* exp: the ConfToCompare of the request in flight, as a set of at most one
\* configuration (empty: nil).
NewClient == [pc |-> "idle", op |-> "none", id |-> 0, target |-> 0, ok |-> TRUE, att |-> 0,
              exp |-> {}]
\* The result of an API call: no call returned, an error, or the items.
NoAPIRes == [op |-> "none", err |-> "", items |-> <<>>]
NoAPI == [pc |-> "idle", paths |-> [n \in Names |-> 0], todo |-> {}, items |-> <<>>]
\* Core after New: a configuration without paths, run() not started, ctx alive.
NewCore == [paths |-> {}, loop |-> "new", newConf |-> {}, ctxDone |-> FALSE,
            run |-> "no", closer |-> "no"]
NoConfCall == [pc |-> "idle", name |-> "", newConf |-> {}, res |-> "none"]
NewMediaMTXAPI == [pkg |-> "mtx", mutex |-> "", n |-> 0,
                   calls |-> [k \in {"k1", "k2"} |-> NoConfCall]]
NoOut == [replies |-> <<>>, closed |-> {}, started |-> 0, stopped |-> 0, hls |-> <<>>,
          readyPaths |-> {}, api |-> NoAPIRes, log |-> <<>>]

\* ------------------------------------------------------------------ the registry

\* PathConfCanBeUpdated with Fallback copied into the clone as well.
PathConfCanBeUpdatedFallback(oldPathConf, newPathConf) ==
  LET clone == [oldPathConf EXCEPT !.name = newPathConf.name,
                                   !.regexp = newPathConf.regexp,
                                   !.record = newPathConf.record,
                                   !.recordPath = newPathConf.recordPath,
                                   !.rpiCameraBrightness = newPathConf.rpiCameraBrightness,
                                   !.fallback = newPathConf.fallback]
  IN newPathConf = clone

PathConfCanBeUpdated(oldPathConf, newPathConf) ==
  LET clone == [oldPathConf EXCEPT !.name = newPathConf.name,
                                   !.regexp = newPathConf.regexp,
                                   !.record = newPathConf.record,
                                   !.recordPath = newPathConf.recordPath,
                                   !.rpiCameraBrightness = newPathConf.rpiCameraBrightness]
  IN newPathConf = clone

doClosePath(ps, a, name) ==
  IF ps[name].path # a THEN ps ELSE [ps EXCEPT ![name] = NoPath]

doPathReady(ps, a, name) ==
  IF ps[name].path # a THEN ps ELSE [ps EXCEPT ![name].ready = TRUE]

\* doPathNotReady without the test of lines 343-345 for the indexed actor.
doPathNotReadyAny(ps, a, name) == [ps EXCEPT ![name].ready = FALSE]

doPathNotReady(ps, a, name) ==
  IF ps[name].path # a THEN ps ELSE [ps EXCEPT ![name].ready = FALSE]

RECURSIVE ApplyNotes(_, _, _, _)
ApplyNotes(ps, a, name, notes) ==
  IF notes = <<>> THEN ps
  ELSE ApplyNotes(IF Head(notes) = "ready" THEN doPathReady(ps, a, name)
                  ELSE doPathNotReady(ps, a, name),
                  a, name, Tail(notes))

\* createPath, as the change it makes to the actors and to the index.
createPathActors(as, id, name, conf) == [as EXCEPT ![id] = PathHandler(name, conf)]
createPathIndex(ps, id, name, conf) ==
  [ps EXCEPT ![name] = [path |-> id, ready |-> FALSE, confName |-> conf.name]]

FixedNames(confs) == {n \in DOMAIN confs : ~confs[n].regexp}

\* The calls doPathReady and doPathNotReady make on the HLS server while they
\* handle the notifications of the actor a.
Forwarded(ps, a, name, notes) ==
  IF hlsServer /\ ps[name].path = a
  THEN [i \in 1..Len(notes) |->
          [call |-> IF notes[i] = "ready" THEN "PathReady" ELSE "PathNotReady", path |-> a]]
  ELSE <<>>

doSetHLSServer(ps) == {ps[n].path : n \in {m \in Names : ps[m].path # 0 /\ ps[m].ready}}

\* ------------------------------------------------------------------ commit of an actor step

\* Replies reach the callers waiting on req.Res: the caller returns, and a
\* successful AddReader or AddPublisher leaves it attached to the actor.
Awaited(cl, m) == cl[m.to].pc = "held" /\ cl[m.to].id = m.id

ApplyOut(cl, pa2, a) ==
  [c \in Clients |->
     LET rs == SelectSeq(pa2.out, LAMBDA m : m.to = c /\ Awaited(cl, m))
     IN IF rs = <<>> THEN cl[c]
        ELSE [NewClient EXCEPT
                !.att = IF rs[1].res.err = "" /\ cl[c].op \in {"addReader", "addPublisher"}
                        THEN a ELSE cl[c].att]]

\* The replies of a step as the callers see them.  dup: the request had its
\* reply already (nobody receives on req.Res any more).
Replies(cl, pa2, a) ==
  [i \in 1..Len(pa2.out) |->
     LET m == pa2.out[i]
     IN [to |-> m.to, id |-> m.id, res |-> m.res, by |-> a,
         op |-> IF Awaited(cl, m) THEN cl[m.to].op ELSE "none",
         dup |-> ~Awaited(cl, m)
                 \/ \E j \in 1..(i - 1) : pa2.out[j].to = m.to /\ pa2.out[j].id = m.id]]

\* A reply made by the registry, or by the caller's own select on ctx.Done().
OneReply(c, r) ==
  [replies |-> <<[to |-> c, id |-> clients[c].id, res |-> r, by |-> 0,
                  op |-> clients[c].op, dup |-> FALSE]>>,
   closed |-> {}, started |-> 0, stopped |-> 0, hls |-> <<>>, readyPaths |-> {},
   api |-> NoAPIRes, log |-> <<>>]

\* h is the actor after a handler of runInner; chk tells whether runInner
\* tests shouldClose() after that handler.
Commit(a, h, cl, chk) ==
  \E pa2 \in {h} :
    LET deliver == ~actors[a].cancelled
        pa3 == [pa2 EXCEPT !.out = <<>>, !.notes = <<>>, !.closed = {}, !.started = 0,
                           !.stopped = 0, !.log = <<>>,
                           !.phase = IF pa2.panicked THEN "panicked"
                                     ELSE IF chk /\ shouldClose(pa2) THEN "closing" ELSE @]
    IN /\ (pa2.notes # <<>> /\ deliver) => pm.pc = "idle"
       /\ actors' = [actors EXCEPT ![a] = pa3]
       /\ paths' = IF deliver THEN ApplyNotes(paths, a, pa2.name, pa2.notes) ELSE paths
       /\ clients' = ApplyOut(cl, pa2, a)
       /\ out' = [replies |-> Replies(cl, pa2, a), closed |-> pa2.closed,
                 started |-> pa2.started, stopped |-> pa2.stopped,
                 hls |-> IF deliver THEN Forwarded(paths, a, pa2.name, pa2.notes) ELSE <<>>,
                 readyPaths |-> {}, api |-> NoAPIRes, log |-> pa2.log]
       /\ crashed' = pa2.panicked
       /\ UNCHANGED <<nextId, pathConfs, pm, reloads, calls, hlsServer, api, core, confAPI>>

Running(a) == ~crashed /\ actors[a].phase = "run"


Req(c) == [author |-> c, id |-> clients[c].id, ok |-> clients[c].ok]

\* ------------------------------------------------------------------ registry: routing

\* Callers are interchangeable while they have no request outstanding and no
\* attachment, so the first such caller of a role is the one that calls.
Earlier(c) == IF c = "r2" THEN {"r1"} ELSE IF c = "p2" THEN {"p1"} ELSE {}

\* Route with createPath moved before the authentication.
RouteCreateFirst(c, op, name, confToCompare, allowed, ok) ==
  LET found == FindPathConfFound(pathConfs, name)
      create == found /\ paths[name].path = 0
      id == IF create THEN nextId ELSE paths[name].path
      failed(e) == [replies |-> <<[to |-> c, id |-> 0, res |-> ResErr(e), by |-> 0,
                                   op |-> op, dup |-> FALSE]>>,
                    closed |-> {}, started |-> 0, stopped |-> 0, hls |-> <<>>, readyPaths |-> {},
                    api |-> NoAPIRes, log |-> <<>>]
  IN /\ ~crashed
     /\ pm.pc = "idle"
     /\ clients[c].pc = "idle"
     /\ \A d \in Earlier(c) : clients[d] # NewClient
     /\ calls < MaxOps
     /\ create => nextId <= MaxActors
     /\ IF ~found
        THEN /\ out' = failed("not configured")
             /\ UNCHANGED <<clients, actors, paths, nextId, calls>>
        ELSE /\ actors' = IF create
                          THEN createPathActors(actors, id, name, FindPathConf(pathConfs, name))
                          ELSE actors
             /\ paths' = IF create
                         THEN createPathIndex(paths, id, name, FindPathConf(pathConfs, name))
                         ELSE paths
             /\ nextId' = IF create THEN nextId + 1 ELSE nextId
             /\ IF confToCompare # {} /\ FindPathConf(pathConfs, name) \notin confToCompare
                THEN out' = failed("configuration has changed") /\ UNCHANGED <<clients, calls>>
                ELSE IF ~allowed
                THEN out' = failed("not authorized") /\ UNCHANGED <<clients, calls>>
                ELSE /\ out' = NoOut
                     /\ calls' = calls + 1
                     /\ clients' = [clients EXCEPT ![c].pc = "toActor", ![c].op = op,
                                                   ![c].id = calls + 1, ![c].target = id,
                                                   ![c].ok = ok, ![c].exp = confToCompare]
     /\ UNCHANGED <<pathConfs, pm, reloads, crashed, hlsServer, api, core, confAPI>>

\* The tail shared by pathManager.doDescribe, doAddReader and doAddPublisher:
\* resolve the configuration, compare it with ConfToCompare (AddPublisher only,
\* empty otherwise), authenticate, create the actor if the index has none, and
\* hand the actor to the caller. Only a request that is handed to an
\* actor counts as a call.
Route(c, op, name, confToCompare, allowed, ok) ==
  LET found == FindPathConfFound(pathConfs, name)
      changed == found /\ confToCompare # {}
                 /\ FindPathConf(pathConfs, name) \notin confToCompare
      create == found /\ ~changed /\ allowed /\ paths[name].path = 0
      id == IF create THEN nextId ELSE paths[name].path
      failed(e) == [replies |-> <<[to |-> c, id |-> 0, res |-> ResErr(e), by |-> 0,
                                   op |-> op, dup |-> FALSE]>>,
                    closed |-> {}, started |-> 0, stopped |-> 0, hls |-> <<>>, readyPaths |-> {},
                    api |-> NoAPIRes, log |-> <<>>]
  IN /\ ~crashed
     /\ pm.pc = "idle"
     /\ clients[c].pc = "idle"
     /\ \A d \in Earlier(c) : clients[d] # NewClient
     /\ calls < MaxOps
     /\ create => nextId <= MaxActors
     /\ IF ~found
        THEN /\ out' = failed("not configured")
             /\ UNCHANGED <<clients, actors, paths, nextId, calls>>
        ELSE IF changed
        THEN /\ out' = failed("configuration has changed")
             /\ UNCHANGED <<clients, actors, paths, nextId, calls>>
        ELSE IF ~allowed
        THEN /\ out' = failed("not authorized")
             /\ UNCHANGED <<clients, actors, paths, nextId, calls>>
        ELSE /\ out' = NoOut
             /\ calls' = calls + 1
             /\ clients' = [clients EXCEPT ![c].pc = "toActor", ![c].op = op,
                                           ![c].id = calls + 1, ![c].target = id,
                                           ![c].ok = ok, ![c].exp = confToCompare]
             /\ actors' = IF create
                          THEN createPathActors(actors, id, name, FindPathConf(pathConfs, name))
                          ELSE actors
             /\ paths' = IF create
                         THEN createPathIndex(paths, id, name, FindPathConf(pathConfs, name))
                         ELSE paths
             /\ nextId' = IF create THEN nextId + 1 ELSE nextId
     /\ UNCHANGED <<pathConfs, pm, reloads, crashed, hlsServer, api, core, confAPI>>

\* pathManager.Describe up to the reply of doDescribe (which ignores SkipAuth).
Describe(c, name, skipAuth, authOK) ==
  /\ c \in Readers
  /\ Route(c, "describe", name, {}, authOK, TRUE)

\* pathManager.FindPathConf and doFindPathConf: the configuration or an error.
doFindPathConf(c, name, authOK) ==
  LET r == IF ~FindPathConfFound(pathConfs, name) THEN ResErr("not configured")
           ELSE IF ~authOK THEN ResErr("not authorized")
           ELSE [err |-> "", stream |-> NilStream, redirect |-> "",
                 conf |-> FindPathConf(pathConfs, name)]
  IN /\ ~crashed
     /\ pm.pc = "idle"
     /\ clients[c] = NewClient
     /\ \A d \in Earlier(c) : clients[d] # NewClient
     /\ out' = [replies |-> <<[to |-> c, id |-> 0, res |-> r, by |-> 0,
                               op |-> "findPathConf", dup |-> FALSE]>>,
                closed |-> {}, started |-> 0, stopped |-> 0, hls |-> <<>>, readyPaths |-> {},
                api |-> NoAPIRes, log |-> <<>>]
     /\ UNCHANGED <<actors, nextId, pathConfs, paths, pm, clients, reloads, calls, crashed,
                   hlsServer, api, core, confAPI>>

\* pathManager.AddReader up to the reply of doAddReader.
AddReader(c, name, skipAuth, authOK) ==
  /\ c \in Readers
  /\ Route(c, "addReader", name, {}, skipAuth \/ authOK, TRUE)

\* pathManager.AddPublisher up to the reply of doAddPublisher.
AddPublisher(c, name, skipAuth, authOK, ok, confToCompare) ==
  /\ c \in Publishers
  /\ clients[c].att = 0
  /\ Route(c, "addPublisher", name, confToCompare, skipAuth \/ authOK, ok)

\* ------------------------------------------------------------------ callers and the actor

Accepted(c) == [clients EXCEPT ![c].pc = "held"]

\* PathHandler.describe: the actor takes the request from chDescribe.
PathDescribe(c) ==
  /\ clients[c].pc = "toActor" /\ clients[c].op = "describe"
  /\ Running(clients[c].target)
  /\ Commit(clients[c].target, doDescribe(actors[clients[c].target], Req(c)),
            Accepted(c), TRUE)

PathAddReader(c) ==
  /\ clients[c].pc = "toActor" /\ clients[c].op = "addReader"
  /\ Running(clients[c].target)
  /\ Commit(clients[c].target, doAddReader(actors[clients[c].target], Req(c)),
            Accepted(c), TRUE)

PathAddPublisher(c) ==
  /\ clients[c].pc = "toActor" /\ clients[c].op = "addPublisher"
  /\ Running(clients[c].target)
  /\ Commit(clients[c].target, doAddPublisher(actors[clients[c].target], Req(c)),
            Accepted(c), FALSE)

\* The <-pa.ctx.Done() case of describe, addReader and addPublisher.
CallerTerminated(c) ==
  /\ ~crashed
  /\ clients[c].pc = "toActor"
  /\ actors[clients[c].target].cancelled
  /\ clients' = [clients EXCEPT ![c] = [NewClient EXCEPT !.att = clients[c].att]]
  /\ out' = OneReply(c, ResErr("terminated"))
  /\ UNCHANGED <<actors, nextId, pathConfs, paths, pm, reloads, calls, crashed, hlsServer, api,
                 core, confAPI>>

Detached(c) == [clients EXCEPT ![c].att = 0]

PathRemoveReader(c) ==
  /\ c \in Readers
  /\ clients[c].pc = "idle" /\ clients[c].att # 0
  /\ Running(clients[c].att)
  /\ Commit(clients[c].att, doRemoveReader(actors[clients[c].att], Req(c)),
            Detached(c), FALSE)

PathRemovePublisher(c) ==
  /\ c \in Publishers
  /\ clients[c].pc = "idle" /\ clients[c].att # 0
  /\ Running(clients[c].att)
  /\ Commit(clients[c].att, doRemovePublisher(actors[clients[c].att], Req(c)),
            Detached(c), TRUE)

\* The <-pa.ctx.Done() case of RemoveReader and RemovePublisher.
RemoveTerminated(c) ==
  /\ ~crashed
  /\ clients[c].pc = "idle" /\ clients[c].att # 0
  /\ actors[clients[c].att].cancelled
  /\ clients' = Detached(c)
  /\ out' = NoOut
  /\ UNCHANGED <<actors, nextId, pathConfs, paths, pm, reloads, calls, crashed, hlsServer, api,
                 core, confAPI>>

\* ------------------------------------------------------------------ actor: timers, source, reload

OnDemandStaticSourceReadyTimer(a) ==
  /\ Running(a) /\ actors[a].onDemandStaticSourceReadyTimer
  /\ Commit(a, doOnDemandStaticSourceReadyTimer(actors[a]), clients, TRUE)

OnDemandStaticSourceCloseTimer(a) ==
  /\ Running(a) /\ actors[a].onDemandStaticSourceCloseTimer
  /\ Commit(a, doOnDemandStaticSourceCloseTimer(actors[a]), clients, TRUE)

OnDemandPublisherReadyTimer(a) ==
  /\ Running(a) /\ actors[a].onDemandPublisherReadyTimer
  /\ Commit(a, doOnDemandPublisherReadyTimer(actors[a]), clients, TRUE)

OnDemandPublisherCloseTimer(a) ==
  /\ Running(a) /\ actors[a].onDemandPublisherCloseTimer
  /\ Commit(a, doOnDemandPublisherCloseTimer(actors[a]), clients, FALSE)

PathReloadConf(a, newConf) ==
  /\ Running(a) /\ newConf \in actors[a].chReloadConf
  /\ Commit(a, doReloadConf([actors[a] EXCEPT !.chReloadConf = @ \ {newConf}], newConf),
            clients, FALSE)

\* The static source signals ready once it runs, and not-ready after that.
StaticSourceHandlerSetReady(a, ok) ==
  /\ Running(a) /\ actors[a].srcRunning /\ ~actors[a].srcReady
  /\ Commit(a, doSourceStaticSetReady(actors[a], ok), clients, FALSE)

StaticSourceHandlerSetNotReady(a) ==
  /\ Running(a) /\ actors[a].srcRunning /\ actors[a].srcReady
  /\ Commit(a, doSourceStaticSetNotReady(actors[a]), clients, TRUE)

\* ------------------------------------------------------------------ actor: shutdown

\* runInner returns on <-pa.ctx.Done().
PathCtxDone(a) ==
  /\ Running(a) /\ actors[a].cancelled
  /\ actors' = [actors EXCEPT ![a].phase = "closing"]
  /\ out' = NoOut
  /\ UNCHANGED <<nextId, pathConfs, paths, pm, clients, reloads, calls, crashed, hlsServer,
                 api, core, confAPI>>

\* closePath without the <-pa.ctx.Done() case of line 528.
PathClosePathNoCtxDone(a, delivered) ==
  /\ ~crashed /\ actors[a].phase = "closing"
  /\ delivered /\ pm.pc = "idle"
  /\ paths' = doClosePath(paths, a, actors[a].name)
  /\ actors' = [actors EXCEPT ![a].phase = "cleanup", ![a].cancelled = TRUE]
  /\ out' = NoOut
  /\ UNCHANGED <<nextId, pathConfs, pm, clients, reloads, calls, crashed, hlsServer, api, core,
                 confAPI>>

\* run(): pa.parent.closePath(pa), then pa.ctxCancel().
PathClosePath(a, delivered) ==
  /\ ~crashed /\ actors[a].phase = "closing"
  /\ IF delivered THEN pm.pc = "idle" ELSE actors[a].cancelled
  /\ paths' = IF delivered THEN doClosePath(paths, a, actors[a].name) ELSE paths
  /\ actors' = [actors EXCEPT ![a].phase = "cleanup", ![a].cancelled = TRUE]
  /\ out' = NoOut
  /\ UNCHANGED <<nextId, pathConfs, pm, clients, reloads, calls, crashed, hlsServer, api, core,
                 confAPI>>

\* run(): from the timers' Stop() to close(pa.done).
PathCleanup(a, delivered) ==
  \E pa2 \in {runCleanup(actors[a])} :
     /\ ~crashed /\ actors[a].phase = "cleanup"
     /\ delivered => (pm.pc = "idle" /\ pa2.notes # <<>>)
     /\ paths' = IF delivered THEN ApplyNotes(paths, a, pa2.name, pa2.notes) ELSE paths
     /\ actors' = [actors EXCEPT ![a] =
                     [pa2 EXCEPT !.out = <<>>, !.notes = <<>>, !.closed = {}, !.started = 0,
                                 !.stopped = 0, !.log = <<>>,
                                 !.chReloadConf = {},
                                 !.phase = IF pa2.panicked THEN "panicked" ELSE @]]
     /\ clients' = ApplyOut(clients, pa2, a)
     /\ out' = [replies |-> Replies(clients, pa2, a), closed |-> pa2.closed,
               started |-> 0, stopped |-> pa2.stopped,
               hls |-> IF delivered THEN Forwarded(paths, a, pa2.name, pa2.notes) ELSE <<>>,
               readyPaths |-> {}, api |-> NoAPIRes, log |-> pa2.log]
     /\ crashed' = pa2.panicked
     /\ UNCHANGED <<nextId, pathConfs, pm, reloads, calls, hlsServer, api, core, confAPI>>


\* ------------------------------------------------------------------ registry: reload

\* The new configuration sets ReloadPathConfs is called with.
ReloadTargets(cur) ==
  {cur, NoConfs}
    \cup {[cur EXCEPT ![n].recordPath = "rec2"] : n \in DOMAIN cur}
    \cup {[cur EXCEPT ![n].fallback = "/fb2"] : n \in DOMAIN cur}
    \cup {OneConf(Pat(cur[n])) : n \in FixedNames(cur)}

\* doReloadConf, first loop: the configurations to recreate and to reload.
confsToRecreate(old, new) ==
  {n \in DOMAIN old : n \in DOMAIN new /\ new[n] # old[n]
                      /\ ~PathConfCanBeUpdated(old[n], new[n])}
\* confsToReload without the Equal test of line 244.
confsToReloadAll(old, new) ==
  {n \in DOMAIN old : n \in DOMAIN new /\ PathConfCanBeUpdated(old[n], new[n])}

confsToReload(old, new) ==
  {n \in DOMAIN old : n \in DOMAIN new /\ new[n] # old[n]
                      /\ PathConfCanBeUpdated(old[n], new[n])}

\* doReloadConf up to its second loop, as the state the registry is left in.
doReloadConfBegin(newPaths) ==
  [pc |-> "reload", newPaths |-> newPaths,
   todo |-> {n \in Names : paths[n].path # 0}, waitFor |-> 0,
   confsToRecreate |-> confsToRecreate(pathConfs, newPaths),
   confsToReload |-> confsToReload(pathConfs, newPaths)]

\* ReloadPathConfs accepted by the registry: doReloadConf up to its second loop.
\* At most max calls are made.
ReloadPathConfsUpTo(newPaths, max) ==
  /\ ~crashed
  /\ pm.pc = "idle"
  /\ reloads < max /\ calls < MaxOps
  /\ pm' = doReloadConfBegin(newPaths)
  /\ reloads' = reloads + 1
  /\ calls' = calls + 1
  /\ out' = NoOut
  /\ UNCHANGED <<actors, nextId, pathConfs, paths, clients, crashed, hlsServer, api, core, confAPI>>

ReloadPathConfs(newPaths) == ReloadPathConfsUpTo(newPaths, MaxReloads)

\* removeAndClosePath without the path.wait() of line 306.
WaitOverNoWait == TRUE

\* path.wait() of the last removeAndClosePath has returned.
WaitOver == IF pm.waitFor = 0 THEN TRUE ELSE actors[pm.waitFor].phase = "done"

\* ReloadDecision without the confsToRecreate test of lines 277-280.
ReloadDecisionNoRecreate(n) ==
  IF ~FindPathConfFound(pm.newPaths, n) THEN "remove"
  ELSE LET newPathConf == FindPathConf(pm.newPaths, n)
       IN IF newPathConf.name # paths[n].confName
          THEN IF PathConfCanBeUpdated(pathConfs[paths[n].confName], newPathConf)
               THEN "rename" ELSE "remove"
          ELSE IF newPathConf.name \in pm.confsToReload THEN "reload"
          ELSE "keep"

\* What the second loop of doReloadConf does with the actor indexed under n.
ReloadDecision(n) ==
  IF ~FindPathConfFound(pm.newPaths, n) THEN "remove"
  ELSE LET newPathConf == FindPathConf(pm.newPaths, n)
       IN IF newPathConf.name # paths[n].confName
          THEN IF PathConfCanBeUpdated(pathConfs[paths[n].confName], newPathConf)
               THEN "rename" ELSE "remove"
          ELSE IF newPathConf.name \in pm.confsToRecreate THEN "remove"
          ELSE IF newPathConf.name \in pm.confsToReload THEN "reload"
          ELSE "keep"

\* One iteration of the second loop of doReloadConf (map order: any entry).
ReloadStep(n) ==
  LET path == paths[n].path
      d == ReloadDecision(n)
  IN /\ ~crashed
     /\ pm.pc = "reload" /\ n \in pm.todo /\ WaitOver
     /\ pm' = [pm EXCEPT !.todo = @ \ {n}, !.waitFor = IF d = "remove" THEN path ELSE 0]
     /\ paths' = IF d = "remove" THEN [paths EXCEPT ![n] = NoPath]
                 ELSE IF d = "rename"
                 THEN [paths EXCEPT ![n].confName = FindPathConf(pm.newPaths, n).name]
                 ELSE paths
     /\ actors' = IF d = "remove" THEN [actors EXCEPT ![path].cancelled = TRUE]
                  ELSE IF d \in {"rename", "reload"}
                  THEN [actors EXCEPT ![path].chReloadConf =
                                         @ \cup {FindPathConf(pm.newPaths, n)}]
                  ELSE actors
     /\ out' = NoOut
     /\ UNCHANGED <<nextId, pathConfs, clients, reloads, calls, crashed, hlsServer, api, core,
                    confAPI>>

\* createPath for every name of S, in turn.
RECURSIVE CreateAll(_, _, _, _, _)
CreateAll(as, ps, id, S, confs) ==
  IF S = {} THEN [actors |-> as, paths |-> ps, nextId |-> id]
  ELSE LET n == CHOOSE x \in S : TRUE
       IN CreateAll(createPathActors(as, id, n, confs[n]),
                    createPathIndex(ps, id, n, confs[n]), id + 1, S \ {n}, confs)

\* The end of doReloadConf without the createPath loop of its last lines.
ReloadFinishNoCreate ==
  /\ ~crashed
  /\ pm.pc = "reload" /\ pm.todo = {} /\ WaitOver
  /\ pathConfs' = pm.newPaths
  /\ pm' = PmIdle
  /\ out' = NoOut
  /\ UNCHANGED <<actors, paths, nextId, clients, reloads, calls, crashed, hlsServer, api, core,
                 confAPI>>

\* The end of doReloadConf: pm.pathConfs = newPaths, then the new static paths.
ReloadFinish ==
  LET missing == {n \in FixedNames(pm.newPaths) : paths[n].path = 0}
      made == CreateAll(actors, paths, nextId, missing, pm.newPaths)
  IN /\ ~crashed
     /\ pm.pc = "reload" /\ pm.todo = {} /\ WaitOver
     /\ nextId + Cardinality(missing) <= MaxActors + 1
     /\ pathConfs' = pm.newPaths
     /\ actors' = made.actors
     /\ paths' = made.paths
     /\ nextId' = made.nextId
     /\ pm' = PmIdle
     /\ out' = NoOut
     /\ UNCHANGED <<clients, reloads, calls, crashed, hlsServer, api, core, confAPI>>

\* ------------------------------------------------------------------ specification

InitConfSets ==
  {OneConf(c) : c \in {ConfPub, ConfPubOverride, ConfPubOnDemand,
                       ConfStaticOnDemand, ConfStatic, ConfRedirect}}
    \cup {OneConf(Pat(c)) : c \in {ConfPubOverride, ConfPubOnDemand}}

\* pathManager.initialize: an actor for every fixed-name configuration.
InitPaths(confs) ==
  LET made == CreateAll([a \in ActorIds |-> NoActor], [n \in Names |-> NoPath], 1,
                        FixedNames(confs), confs)
  IN /\ pathConfs = confs
     /\ actors = made.actors
     /\ paths = made.paths
     /\ nextId = made.nextId
     /\ pm = PmIdle
     /\ clients = [c \in Clients |-> NewClient]
     /\ reloads = 0
     /\ calls = 0
     /\ out = NoOut
     /\ crashed = FALSE
     /\ hlsServer = FALSE
     /\ api = NoAPI

InitWith(confs) == InitPaths(confs) /\ core = NewCore /\ confAPI = NewMediaMTXAPI

Init == \E confs \in InitConfSets : InitWith(confs)

Next ==
  \/ \E c \in Clients, n \in Names, authOK \in BOOLEAN :
       \/ \E skipAuth \in BOOLEAN : Describe(c, n, skipAuth, authOK)
       \/ \E skipAuth \in BOOLEAN : AddReader(c, n, skipAuth, authOK)
       \/ \E skipAuth \in BOOLEAN, ok \in BOOLEAN : AddPublisher(c, n, skipAuth, authOK, ok, {})
  \/ \E c \in Clients :
       \/ PathDescribe(c)
       \/ PathAddReader(c)
       \/ PathAddPublisher(c)
       \/ CallerTerminated(c)
       \/ PathRemoveReader(c)
       \/ PathRemovePublisher(c)
       \/ RemoveTerminated(c)
  \/ \E a \in ActorIds :
       \/ OnDemandStaticSourceReadyTimer(a)
       \/ OnDemandStaticSourceCloseTimer(a)
       \/ OnDemandPublisherReadyTimer(a)
       \/ OnDemandPublisherCloseTimer(a)
       \/ \E newConf \in actors[a].chReloadConf : PathReloadConf(a, newConf)
       \/ \E ok \in BOOLEAN : StaticSourceHandlerSetReady(a, ok)
       \/ StaticSourceHandlerSetNotReady(a)
       \/ PathCtxDone(a)
       \/ \E delivered \in BOOLEAN : PathClosePath(a, delivered)
       \/ \E delivered \in BOOLEAN : PathCleanup(a, delivered)
  \/ \E newPaths \in ReloadTargets(pathConfs) : ReloadPathConfs(newPaths)
  \/ \E n \in Names : ReloadStep(n)
  \/ ReloadFinish

Spec == Init /\ [][Next]_vars

\* The callers and the actor of one path with an on-demand publisher, under
\* fair scheduling: the actor loop takes the requests and the timer expiries
\* that are ready for it.  New calls and Remove calls are left to the callers.
OnDemandPublisherInit == InitWith(OneConf(ConfPubOnDemand))

OnDemandPublisherNext ==
  \/ \E c \in Clients, n \in Names, authOK \in BOOLEAN :
       \/ \E skipAuth \in BOOLEAN : Describe(c, n, skipAuth, authOK)
       \/ \E skipAuth \in BOOLEAN : AddReader(c, n, skipAuth, authOK)
       \/ \E skipAuth \in BOOLEAN, ok \in BOOLEAN : AddPublisher(c, n, skipAuth, authOK, ok, {})
  \/ \E c \in Clients :
       \/ PathDescribe(c)
       \/ PathAddReader(c)
       \/ PathAddPublisher(c)
       \/ PathRemoveReader(c)
       \/ PathRemovePublisher(c)
  \/ \E a \in ActorIds :
       \/ OnDemandPublisherReadyTimer(a)
       \/ OnDemandPublisherCloseTimer(a)

Fairness ==
  /\ \A c \in Readers : WF_vars(PathDescribe(c)) /\ WF_vars(PathAddReader(c))
  /\ \A c \in Publishers : WF_vars(PathAddPublisher(c))
  /\ WF_vars(OnDemandPublisherReadyTimer(1))
  /\ WF_vars(OnDemandPublisherCloseTimer(1))

FairSpec == OnDemandPublisherInit /\ [][OnDemandPublisherNext]_vars /\ Fairness

\* The registry under reloads alone: the new set holds the configuration of
\* the current set with any of ConfFields changed, under any name of ConfNames.
ConfFields == {"record", "recordPath", "rpiCameraBrightness", "fallback", "overridePublisher"}
ConfNames == {"cam", "~^cam", "none"}

Changed(c, F) ==
  [c EXCEPT !.record = IF "record" \in F THEN ~@ ELSE @,
            !.recordPath = IF "recordPath" \in F THEN "rec2" ELSE @,
            !.rpiCameraBrightness = IF "rpiCameraBrightness" \in F THEN "b2" ELSE @,
            !.fallback = IF "fallback" \in F THEN "/fb2" ELSE @,
            !.overridePublisher = IF "overridePublisher" \in F THEN ~@ ELSE @]

Renamed(c, nm) == [c EXCEPT !.name = nm, !.regexp = (nm = "~^cam")]

ConfUpdates(cur) ==
  {NoConfs} \cup {OneConf(Renamed(Changed(cur[n], F), nm)) :
                     n \in DOMAIN cur, F \in SUBSET ConfFields, nm \in ConfNames}

ReloadNext ==
  \/ \E newPaths \in ConfUpdates(pathConfs) : ReloadPathConfs(newPaths)
  \/ \E n \in Names : ReloadStep(n)
  \/ ReloadFinish
  \/ \E a \in ActorIds :
       \/ \E newConf \in actors[a].chReloadConf : PathReloadConf(a, newConf)
       \/ \E ok \in BOOLEAN : StaticSourceHandlerSetReady(a, ok)
       \/ StaticSourceHandlerSetNotReady(a)
       \/ PathCtxDone(a)
       \/ \E delivered \in BOOLEAN : PathClosePath(a, delivered)
       \/ \E delivered \in BOOLEAN : PathCleanup(a, delivered)

ReloadSpec == Init /\ [][ReloadNext]_vars

\* The same under reloads of a static-source path that records, or does not.
RecordInit ==
  \E confs \in {OneConf(ConfStatic), OneConf([ConfStatic EXCEPT !.record = FALSE])} :
    InitWith(confs)

RecordSpec == RecordInit /\ [][ReloadNext]_vars

\* Two reloads in a row of a fixed-name path, each changing fields that can be
\* hot reloaded: the deliveries of both may be waiting for the actor.
HotUpdates(cur) ==
  {OneConf(Changed(cur[n], F)) : n \in DOMAIN cur,
                                 F \in SUBSET {"record", "recordPath", "rpiCameraBrightness"}}

OrderInit == InitWith(OneConf(ConfStatic))

OrderNext ==
  \/ \E newPaths \in HotUpdates(pathConfs) \cup {NoConfs} :
       ReloadPathConfsUpTo(newPaths, MaxReloads + 1)
  \/ \E n \in Names : ReloadStep(n)
  \/ ReloadFinish
  \/ \E a \in ActorIds :
       \/ \E newConf \in actors[a].chReloadConf : PathReloadConf(a, newConf)
       \/ \E ok \in BOOLEAN : StaticSourceHandlerSetReady(a, ok)
       \/ PathCtxDone(a)
       \/ \E delivered \in BOOLEAN : PathClosePath(a, delivered)
       \/ \E delivered \in BOOLEAN : PathCleanup(a, delivered)

OrderSpec == OrderInit /\ [][OrderNext]_vars

\* The registry with its callers and reloads, the actors only shutting down:
\* the requests handed to an actor wait in its channels.
RegistryNext ==
  \/ \E c \in Clients, n \in Names, authOK \in BOOLEAN :
       \/ doFindPathConf(c, n, authOK)
       \/ \E skipAuth \in BOOLEAN : Describe(c, n, skipAuth, authOK)
       \/ \E skipAuth \in BOOLEAN : AddReader(c, n, skipAuth, authOK)
       \/ \E skipAuth \in BOOLEAN, ok \in BOOLEAN : AddPublisher(c, n, skipAuth, authOK, ok, {})
  \/ \E c \in Clients : CallerTerminated(c)
  \/ \E a \in ActorIds :
       \/ PathCtxDone(a)
       \/ \E delivered \in BOOLEAN : PathClosePath(a, delivered)
       \/ \E delivered \in BOOLEAN : PathCleanup(a, delivered)
  \/ \E newPaths \in ReloadTargets(pathConfs) : ReloadPathConfs(newPaths)
  \/ \E n \in Names : ReloadStep(n)
  \/ ReloadFinish

RegistrySpec == Init /\ [][RegistryNext]_vars

\* The publishers of one publisher path under reloads: an AddPublisher carries
\* no expected configuration, the one the registry resolves now, or the one
\* with the other recordPath (what it resolved before, or will after, a reload).
ConfsToCompare(confs, name) ==
  IF ~FindPathConfFound(confs, name) THEN {{}, {BaseConf}}
  ELSE LET cur == FindPathConf(confs, name)
       IN {{}, {cur},
           {[cur EXCEPT !.recordPath = IF @ = "rec1" THEN "rec2" ELSE "rec1"]}}

PublishInit ==
  \E confs \in {OneConf(ConfPub), OneConf(ConfPubOverride), OneConf(Pat(ConfPubOverride))} :
     InitWith(confs)

PublishNext ==
  \/ \E c \in Publishers, n \in Names, skipAuth \in BOOLEAN, authOK \in BOOLEAN,
        ok \in BOOLEAN :
          \E confToCompare \in ConfsToCompare(pathConfs, n) :
             AddPublisher(c, n, skipAuth, authOK, ok, confToCompare)
  \/ \E c \in Publishers :
       \/ PathAddPublisher(c)
       \/ CallerTerminated(c)
       \/ PathRemovePublisher(c)
       \/ RemoveTerminated(c)
  \/ \E a \in ActorIds :
       \/ \E newConf \in actors[a].chReloadConf : PathReloadConf(a, newConf)
       \/ PathCtxDone(a)
       \/ \E delivered \in BOOLEAN : PathClosePath(a, delivered)
       \/ \E delivered \in BOOLEAN : PathCleanup(a, delivered)
  \/ \E newPaths \in ReloadTargets(pathConfs) : ReloadPathConfs(newPaths)
  \/ \E n \in Names : ReloadStep(n)
  \/ ReloadFinish

PublishSpec == PublishInit /\ [][PublishNext]_vars

\* pathManager.SetHLSServer with doSetHLSServer: the HLS server is attached
\* (once in a run) and gets the actors the index records as ready.
SetHLSServer ==
  /\ ~crashed
  /\ pm.pc = "idle"
  /\ ~hlsServer
  /\ hlsServer' = TRUE
  /\ out' = [NoOut EXCEPT !.readyPaths = doSetHLSServer(paths)]
  /\ UNCHANGED <<actors, nextId, pathConfs, paths, pm, clients, reloads, calls, crashed, api,
                 core, confAPI>>

\* The whole control plane with an HLS server that attaches at any moment.
HLSNext == SetHLSServer \/ Next

HLSSpec == Init /\ [][HLSNext]_vars

\* ------------------------------------------------------------------ API: the paths

\* doAPIPathsGet: the projection of an actor (the fields the model has).
doAPIPathsGet(pa) ==
  [name |-> pa.name, confName |-> pa.conf.name, ready |-> isReady(pa), readers |-> pa.readers]

\* The order of Go strings on the names of the model.
NameLess(n1, n2) == n1 = "cam" /\ n2 = "none"

\* APIPathsList without its sort.Slice.
SortByNameNone(items) == items

\* sort.Slice(items, Name less): the items in ascending order of name.
RECURSIVE SortInsert(_, _)
SortInsert(item, sorted) ==
  IF sorted = <<>> THEN <<item>>
  ELSE IF NameLess(item.name, Head(sorted).name) THEN <<item>> \o sorted
  ELSE <<Head(sorted)>> \o SortInsert(item, Tail(sorted))

RECURSIVE SortByName(_)
SortByName(items) ==
  IF items = <<>> THEN <<>> ELSE SortInsert(Head(items), SortByName(Tail(items)))

\* pathManager.doAPIPathsGet: the index has an entry for the name.
doAPIPathsGetIndexed(ps, name) == ps[name].path # 0

\* pathManager.APIPathsList up to the reply of doAPIPathsList: a copy of the index.
APIPathsList ==
  /\ ~crashed
  /\ pm.pc = "idle"
  /\ api.pc = "idle"
  /\ calls < MaxOps
  /\ api' = [pc |-> "list", paths |-> [n \in Names |-> paths[n].path],
             todo |-> {n \in Names : paths[n].path # 0}, items |-> <<>>]
  /\ calls' = calls + 1
  /\ out' = NoOut
  /\ UNCHANGED <<actors, nextId, pathConfs, paths, pm, clients, reloads, crashed, hlsServer,
                 core, confAPI>>

\* One iteration of the loop of APIPathsList (map order: any entry): the actor
\* takes the request from chAPIPathsGet and answers, or its context is done.
APIPathsListItem(n, answers) ==
  /\ ~crashed
  /\ api.pc = "list" /\ n \in api.todo
  /\ IF answers THEN Running(api.paths[n]) ELSE actors[api.paths[n]].cancelled
  /\ api' = [api EXCEPT !.todo = @ \ {n},
                        !.items = IF answers
                                  THEN Append(@, doAPIPathsGet(actors[api.paths[n]]))
                                  ELSE @]
  /\ out' = NoOut
  /\ UNCHANGED <<actors, nextId, pathConfs, paths, pm, clients, reloads, calls, crashed,
                 hlsServer, core, confAPI>>

\* The end of APIPathsList: the sort and the return.
APIPathsListReturn ==
  /\ ~crashed
  /\ api.pc = "list" /\ api.todo = {}
  /\ api' = NoAPI
  /\ out' = [NoOut EXCEPT !.api = [op |-> "list", err |-> "", items |-> SortByName(api.items)]]
  /\ UNCHANGED <<actors, nextId, pathConfs, paths, pm, clients, reloads, calls, crashed,
                 hlsServer, core, confAPI>>

\* pathManager.APIPathsGet up to the reply of doAPIPathsGet.
APIPathsGet(name) ==
  /\ ~crashed
  /\ pm.pc = "idle"
  /\ api.pc = "idle"
  /\ calls < MaxOps
  /\ calls' = calls + 1
  /\ IF doAPIPathsGetIndexed(paths, name)
     THEN /\ api' = [pc |-> "get", paths |-> [n \in Names |-> paths[n].path],
                     todo |-> {name}, items |-> <<>>]
          /\ out' = NoOut
     ELSE /\ api' = api
          /\ out' = [NoOut EXCEPT !.api = [op |-> "get", err |-> "path not found",
                                           items |-> <<>>]]
  /\ UNCHANGED <<actors, nextId, pathConfs, paths, pm, clients, reloads, crashed, hlsServer,
                 core, confAPI>>

\* PathHandler.APIPathsGet for the actor the registry returned.
APIPathsGetItem(n, answers) ==
  /\ ~crashed
  /\ api.pc = "get" /\ n \in api.todo
  /\ IF answers THEN Running(api.paths[n]) ELSE actors[api.paths[n]].cancelled
  /\ api' = NoAPI
  /\ out' = [NoOut EXCEPT !.api =
                IF answers
                THEN [op |-> "get", err |-> "", items |-> <<doAPIPathsGet(actors[api.paths[n]])>>]
                ELSE [op |-> "get", err |-> "terminated", items |-> <<>>]]
  /\ UNCHANGED <<actors, nextId, pathConfs, paths, pm, clients, reloads, calls, crashed,
                 hlsServer, core, confAPI>>

\* The registry of two fixed-name paths with the API caller, the static
\* sources and reloads.
APIConfSets ==
  {[n \in {"cam", "none"} |-> IF n = "cam" THEN c ELSE Renamed(ConfStatic, "none")] :
      c \in {ConfPub, ConfStatic}}

APIInit == \E confs \in APIConfSets : InitWith(confs)

APINext ==
  \/ APIPathsList
  \/ \E n \in Names, answers \in BOOLEAN : APIPathsListItem(n, answers)
  \/ APIPathsListReturn
  \/ \E n \in Names : APIPathsGet(n)
  \/ \E n \in Names, answers \in BOOLEAN : APIPathsGetItem(n, answers)
  \/ \E a \in ActorIds :
       \/ StaticSourceHandlerSetReady(a, TRUE)
       \/ StaticSourceHandlerSetNotReady(a)
       \/ PathCtxDone(a)
       \/ \E delivered \in BOOLEAN : PathClosePath(a, delivered)
       \/ \E delivered \in BOOLEAN : PathCleanup(a, delivered)
  \/ \E newPaths \in ReloadTargets(pathConfs) : ReloadPathConfs(newPaths)
  \/ \E n \in Names : ReloadStep(n)
  \/ ReloadFinish

APISpec == APIInit /\ [][APINext]_vars

\* ------------------------------------------------------------------ shutdown under fair scheduling

\* Callers, actors that shut down (cancelled by a reload, or not in use) and
\* the registry under fair scheduling: a goroutine that can take its next
\* step takes it.  The actors take Describe requests, the ready timer of the
\* launch and the signals of the static source; new calls and reloads are
\* left to their callers.
ShutdownInit ==
  \E confs \in {OneConf(Pat(ConfPubOnDemand)), OneConf(ConfStatic)} : InitWith(confs)

ShutdownNext ==
  \/ \E c \in Clients, n \in Names : Describe(c, n, FALSE, TRUE)
  \/ \E c \in Clients :
       \/ PathDescribe(c)
       \/ CallerTerminated(c)
  \/ \E a \in ActorIds :
       \/ OnDemandPublisherReadyTimer(a)
       \/ \E ok \in BOOLEAN : StaticSourceHandlerSetReady(a, ok)
       \/ StaticSourceHandlerSetNotReady(a)
       \/ PathCtxDone(a)
       \/ \E delivered \in BOOLEAN : PathClosePath(a, delivered)
       \/ \E delivered \in BOOLEAN : PathCleanup(a, delivered)
  \/ \E newPaths \in ReloadTargets(pathConfs) : ReloadPathConfs(newPaths)
  \/ \E n \in Names : ReloadStep(n)
  \/ ReloadFinish

ShutdownFairness ==
  /\ \A c \in Clients : WF_vars(CallerTerminated(c))
  /\ \A a \in ActorIds :
       /\ WF_vars(PathCtxDone(a))
       /\ WF_vars(\E delivered \in BOOLEAN : PathClosePath(a, delivered))
       /\ WF_vars(\E delivered \in BOOLEAN : PathCleanup(a, delivered))
  /\ WF_vars(\E n \in Names : ReloadStep(n))
  /\ WF_vars(ReloadFinish)

ShutdownSpec == ShutdownInit /\ [][ShutdownNext]_vars /\ ShutdownFairness

\* ------------------------------------------------------------------ API: the configuration

ConfCallers == {"k1", "k2"}
AddedNames == {"cam", "none"}
MaxConfCalls == 3
managerVars == <<actors, nextId, pathConfs, paths, pm, clients, reloads, calls, out, crashed,
                 hlsServer, api>>

\* conf.Conf.AddPath on the path names of a configuration: the name must be new.
AddPath(confPaths, name) ==
  IF name \in confPaths THEN [err |-> TRUE, paths |-> confPaths]
  ELSE [err |-> FALSE, paths |-> confPaths \cup {name}]

\* The path configurations of Conf.Paths: a path added through the API has the
\* default settings under its name.
ConfPaths(names) == [n \in names |-> [BaseConf EXCEPT !.name = n]]

\* Core.Run: CreateResources(true), which creates the path registry from
\* p.Conf.Paths, then go p.run().
CoreRun(ok) ==
  LET made == CreateAll(actors, paths, nextId, core.paths, ConfPaths(core.paths))
  IN /\ core.run = "no"
     /\ core' = IF ok THEN [core EXCEPT !.run = "ok", !.loop = "select"]
                ELSE [core EXCEPT !.run = "failed"]
     /\ pathConfs' = IF ok THEN ConfPaths(core.paths) ELSE pathConfs
     /\ actors' = IF ok THEN made.actors ELSE actors
     /\ paths' = IF ok THEN made.paths ELSE paths
     /\ nextId' = IF ok THEN made.nextId ELSE nextId
     /\ UNCHANGED <<pm, clients, reloads, calls, out, crashed, hlsServer, api, confAPI>>

\* Core.run, case newConf := <-p.ChAPIConfigSet: reloadConf calls closeResources,
\* which hands newConf.Paths to the registry when they differ from p.Conf.Paths,
\* sets p.Conf and creates the resources; an error leaves the loop, cancels the
\* context and closes Done.
CoreReloadConf(ok) ==
  LET reload == core.newConf # core.paths
  IN /\ core.loop = "reload"
     /\ reload => pm.pc = "idle"
     /\ pm' = IF reload THEN doReloadConfBegin(ConfPaths(core.newConf)) ELSE pm
     /\ core' = IF ok THEN [core EXCEPT !.paths = core.newConf, !.loop = "select"]
                ELSE [core EXCEPT !.paths = core.newConf, !.loop = "done", !.ctxDone = TRUE]
     /\ UNCHANGED <<actors, nextId, pathConfs, paths, clients, reloads, calls, out, crashed,
                    hlsServer, api, confAPI>>

\* Core.run, case <-p.ctx.Done().
CoreCtxDone ==
  /\ core.loop = "select"
  /\ core.ctxDone
  /\ core' = [core EXCEPT !.loop = "done"]
  /\ UNCHANGED <<managerVars, confAPI>>

\* Core.Close: p.ctxCancel(), then <-p.Done.
CoreClose ==
  /\ core.closer = "no"
  /\ core' = [core EXCEPT !.ctxDone = TRUE, !.closer = "waiting"]
  /\ UNCHANGED <<managerVars, confAPI>>

CoreCloseReturn ==
  /\ core.closer = "waiting"
  /\ core.loop = "done"
  /\ core' = [core EXCEPT !.closer = "returned"]
  /\ UNCHANGED <<managerVars, confAPI>>

\* A caller enters AddPathConfig and waits for api.mutex.
AddPathConfig(k, name) ==
  /\ confAPI.n < MaxConfCalls
  /\ confAPI.calls[k].pc = "idle"
  /\ confAPI' = [confAPI EXCEPT !.n = @ + 1,
                                !.calls[k] = [pc |-> "lock", name |-> name, newConf |-> {},
                                              res |-> "none"]]
  /\ UNCHANGED <<managerVars, core>>

\* api.mutex.Lock(); newConf := api.core.Conf.Clone(); newConf.AddPath;
\* newConf.Validate(nil). An error returns it and the deferred Unlock runs.
AddPathConfigLock(k, valid) ==
  /\ confAPI.calls[k].pc = "lock"
  /\ confAPI.mutex = ""
  /\ LET added == AddPath(core.paths, confAPI.calls[k].name)
     IN confAPI' = IF added.err \/ ~valid
                   THEN [confAPI EXCEPT !.calls[k].pc = "idle", !.calls[k].res = "failed"]
                   ELSE [confAPI EXCEPT !.mutex = k, !.calls[k].pc = "cloned",
                                        !.calls[k].newConf = added.paths]
  /\ UNCHANGED <<managerVars, core>>

\* api.core.Conf = newConf.
AddPathConfigAssign(k) ==
  /\ confAPI.calls[k].pc = "cloned"
  /\ core' = [core EXCEPT !.paths = confAPI.calls[k].newConf]
  /\ confAPI' = [confAPI EXCEPT !.calls[k].pc = "send"]
  /\ UNCHANGED managerVars

\* The hand-over to Core.run and the return. pkg/mtx: a select with a send on
\* ChAPIConfigSet and a default case, the send taken when the loop is at its
\* select. pkg/mediamtx: Core.APIConfigSet, a select with the send and
\* <-p.ctx.Done() and no default case. Then return nil and the deferred Unlock.
AddPathConfigReturn(k, send) ==
  /\ confAPI.calls[k].pc = "send"
  /\ IF confAPI.pkg = "mtx" THEN send = (core.loop = "select")
     ELSE IF send THEN core.loop = "select" ELSE core.ctxDone
  /\ core' = IF send THEN [core EXCEPT !.loop = "reload", !.newConf = confAPI.calls[k].newConf]
             ELSE core
  /\ confAPI' = [confAPI EXCEPT !.mutex = "", !.calls[k].pc = "idle", !.calls[k].res = "ok"]
  /\ UNCHANGED managerVars

\* The API of either package on a Core just allocated.
ConfigInit ==
  /\ InitPaths(NoConfs)
  /\ core = NewCore
  /\ \E pkg \in {"mtx", "mediamtx"} : confAPI = [NewMediaMTXAPI EXCEPT !.pkg = pkg]

ConfigNext ==
  \/ \E ok \in BOOLEAN : CoreRun(ok)
  \/ \E ok \in BOOLEAN : CoreReloadConf(ok)
  \/ CoreCtxDone
  \/ CoreClose
  \/ CoreCloseReturn
  \/ \E k \in ConfCallers, name \in AddedNames : AddPathConfig(k, name)
  \/ \E k \in ConfCallers, valid \in BOOLEAN : AddPathConfigLock(k, valid)
  \/ \E k \in ConfCallers : AddPathConfigAssign(k)
  \/ \E k \in ConfCallers, send \in BOOLEAN : AddPathConfigReturn(k, send)
  \/ \E n \in Names : ReloadStep(n)
  \/ ReloadFinish

\* Every goroutine that can take a step takes it; nobody has to call Run or Close
\* or AddPathConfig.
ConfigFairness ==
  /\ WF_vars(\E ok \in BOOLEAN : CoreReloadConf(ok))
  /\ WF_vars(CoreCtxDone)
  /\ WF_vars(CoreCloseReturn)
  /\ WF_vars(\E n \in Names : ReloadStep(n))
  /\ WF_vars(ReloadFinish)
  /\ \A k \in ConfCallers :
       /\ WF_vars(\E valid \in BOOLEAN : AddPathConfigLock(k, valid))
       /\ WF_vars(AddPathConfigAssign(k))
       /\ WF_vars(\E send \in BOOLEAN : AddPathConfigReturn(k, send))

ConfigSpec == ConfigInit /\ [][ConfigNext]_vars /\ ConfigFairness

\* ------------------------------------------------------------------ properties

Serving(a) == actors[a].phase \in {"run", "closing", "cleanup"}
Live(a) == Serving(a) \/ actors[a].phase = "panicked"
OnHold(a) == actors[a].describeRequestsOnHold \o actors[a].readerAddRequestsOnHold
HeldAt(c, a) == {i \in DOMAIN OnHold(a) : OnHold(a)[i].author = c
                                           /\ OnHold(a)[i].id = clients[c].id}

\* C1: a Describe or AddReader request put on a hold queue gets one reply and
\* never a second one: no reply is sent on a request that already had its
\* reply, a request on a hold queue of an actor that has not flushed its queues
\* yet is still awaited by its caller, and a caller that was accepted without
\* a reply has its request on the queues of its actor exactly once, whether
\* the queues end by readiness, by the ready timers or by the shutdown of the
\* actor.
C1_RepliedOnce ==
  /\ \A i \in DOMAIN out.replies : ~out.replies[i].dup
  /\ \A a \in ActorIds : Serving(a) =>
        \A i \in DOMAIN OnHold(a) : Awaited(clients, [to |-> OnHold(a)[i].author,
                                                      id |-> OnHold(a)[i].id])
  /\ \A c \in Clients : clients[c].pc = "held" =>
        /\ Live(clients[c].target)
        /\ Cardinality(HeldAt(c, clients[c].target)) = 1

\* C1 witness: a step that answers a held Describe together with the
\* AddPublisher that made the path ready.
C1_Witness ==
  \E i, j \in DOMAIN out.replies :
    /\ out.replies[i].op = "describe" /\ out.replies[i].res.stream # NilStream
    /\ out.replies[j].op = "addPublisher" /\ out.replies[j].res.err = ""

Blocked(c) == clients[c].pc \in {"toActor", "held"}

\* C2: under fair scheduling every Describe, AddReader or AddPublisher call
\* made through the registry returns: a caller that is blocked in a call gets
\* its result, unless the process has panicked.
C2_EveryCallReturns ==
  \A c \in Clients : Blocked(c) ~> (~Blocked(c) \/ crashed)

\* The reply a step sent to the call c was blocked in.
ReplyOf(c) ==
  LET i == CHOOSE i \in DOMAIN out'.replies :
             out'.replies[i].to = c /\ out'.replies[i].id = clients[c].id
  IN out'.replies[i].res
Replied(c) ==
  \E i \in DOMAIN out'.replies :
    out'.replies[i].to = c /\ out'.replies[i].id = clients[c].id

PlainPublisherPath(pa) == pa.conf.source = "publisher" /\ ~pa.conf.overridePublisher
Attached(a) == {c \in Clients : clients[c].att = a}
OnePublisher ==
  \A a \in ActorIds : (Serving(a) /\ PlainPublisherPath(actors[a])) =>
    Attached(a) \cap Publishers \subseteq {actors[a].source}

C3_Step(c) ==
  LET a == clients[c].target
      pa == actors[a]
  IN (PathAddPublisher(c) /\ PlainPublisherPath(pa)) =>
       /\ Replied(c)
       /\ IF pa.source # "nil"
          THEN /\ ReplyOf(c) = ResErr("someone is already publishing")
               /\ actors'[a].source = pa.source
          ELSE IF clients[c].ok
          THEN /\ ReplyOf(c) = ResStream(actors'[a].stream)
               /\ actors'[a].source = c /\ clients'[c].att = a
          ELSE /\ ReplyOf(c) = ResErr("stream init failed")
               /\ actors'[a].source = "nil"

\* C3 (amended): on a source=publisher path without override an AddPublisher
\* processed while the source slot is empty succeeds and takes the slot if its
\* stream initialises, and fails with the initialisation error and leaves the
\* slot empty if it does not; an AddPublisher processed while the slot is taken
\* fails with the already-publishing error and leaves the slot alone; at any
\* time only the publisher in the slot is attached to the path.
C3_OneWinner ==
  [][(\A c \in Publishers : C3_Step(c)) /\ OnePublisher']_vars

\* C3 as stated: the racer processed while the slot is empty succeeds, every
\* other one fails with the already-publishing error.
C3_AsStated ==
  [][\A c \in Publishers :
       (PathAddPublisher(c) /\ PlainPublisherPath(actors[clients[c].target])) =>
         /\ Replied(c)
         /\ IF actors[clients[c].target].source = "nil"
            THEN ReplyOf(c).err = ""
            ELSE ReplyOf(c) = ResErr("someone is already publishing")]_vars

\* C3 witness: the loser of a race is told that someone is already publishing
\* while the winner is attached.
C3_Witness ==
  \E i \in DOMAIN out.replies :
    /\ out.replies[i].res = ResErr("someone is already publishing")
    /\ \E p \in Publishers : /\ p # out.replies[i].to
                              /\ clients[p].att = out.replies[i].by
                              /\ actors[out.replies[i].by].source = p

OverridePath(pa) == pa.conf.source = "publisher" /\ pa.conf.overridePublisher

\* C4: on a source=publisher path with override, an AddPublisher processed
\* while another publisher is attached closes that publisher and leaves the
\* author of the processed request in the source slot.
C4_NewestWins ==
  [][\A c \in Publishers :
       LET a == clients[c].target
       IN (PathAddPublisher(c) /\ OverridePath(actors[a])
             /\ actors[a].source \in Publishers) =>
            /\ actors[a].source \in out'.closed
            /\ actors'[a].source = c]_vars

MaxReadersKept ==
  \A a \in ActorIds :
    actors[a].conf.maxReaders # 0 =>
      Cardinality(actors[a].readers) <= actors[a].conf.maxReaders

C5_Add(c) ==
  LET a == clients[c].target
      pa == actors[a]
  IN (PathAddReader(c) /\ pa.conf.maxReaders # 0 /\ pa.stream # NilStream
        /\ c \notin pa.readers) =>
       /\ Replied(c)
       /\ IF Cardinality(pa.readers) >= pa.conf.maxReaders
          THEN /\ ReplyOf(c) = ResErr("maximum reader count reached")
               /\ actors'[a].readers = pa.readers
          ELSE /\ ReplyOf(c) = ResStream(pa.stream)
               /\ actors'[a].readers = pa.readers \cup {c}

C5_Remove(c) ==
  LET a == clients[c].att
  IN (PathRemoveReader(c) /\ c \in actors[a].readers) =>
       actors'[a].readers = actors[a].readers \ {c}

\* C5: on a path with MaxReaders = K > 0 the reader set never holds more than
\* K readers; on a ready path an AddReader by a new author fails with the
\* max-readers error and changes nothing when K readers are attached, and
\* succeeds and adds its author when fewer are; a RemoveReader of an attached
\* reader takes exactly that reader out of the set.
C5_MaxReaders ==
  [][/\ MaxReadersKept'
     /\ \A c \in Readers : C5_Add(c) /\ C5_Remove(c)]_vars

\* C5 witness: with K readers attached, the next reader is refused.
C5_Witness ==
  \E i \in DOMAIN out.replies :
    /\ out.replies[i].res = ResErr("maximum reader count reached")
    /\ out.replies[i].op = "addReader"
    /\ Cardinality(actors[out.replies[i].by].readers) = MaxReadersK
    /\ \E r \in Readers : clients[r].att = out.replies[i].by

C6_Step(c) ==
  LET a == clients[c].target
      pa == actors[a]
  IN ((PathDescribe(c) \/ PathAddReader(c))
        /\ HasOnDemandStaticSource(pa.conf) /\ pa.stream = NilStream) =>
       /\ ~Replied(c) /\ clients'[c].pc = "held"
       /\ Cardinality(HeldAt(c, a)') = 1
       /\ actors'[a].onDemandStaticSourceState = "waitingReady"
       /\ actors'[a].onDemandStaticSourceReadyTimer
       /\ actors'[a].srcRunning
       /\ IF pa.onDemandStaticSourceState = "initial"
          THEN out'.started = 1
          ELSE /\ out'.started = 0
               /\ pa.onDemandStaticSourceState = "waitingReady"
               /\ pa.onDemandStaticSourceReadyTimer /\ pa.srcRunning

\* C6: on an on-demand static-source path without a stream, a Describe or
\* AddReader processed in state Initial starts the source once, arms the ready
\* timer and moves the state to WaitingReady; one processed in WaitingReady
\* starts nothing and leaves the state and the armed timer as they are; both
\* are put on hold without a reply.
C6_StartedOnce ==
  [][\A c \in Readers : C6_Step(c)]_vars

\* C6 witness: a second request was queued in WaitingReady without a start.
C6_Witness ==
  \E a \in ActorIds :
    /\ HasOnDemandStaticSource(actors[a].conf)
    /\ actors[a].onDemandStaticSourceState = "waitingReady"
    /\ Len(OnHold(a)) = 2
    /\ out.started = 0 /\ out.replies = <<>>
    /\ \A c \in Readers : clients[c].pc = "held" /\ clients[c].target = a

\* The step sent exactly one reply on the held request q, and it was r.
Answered(q, r) ==
  LET I == {i \in DOMAIN out'.replies :
              out'.replies[i].to = q.author /\ out'.replies[i].id = q.id}
  IN Cardinality(I) = 1 /\ \A i \in I : out'.replies[i].res = r /\ ~out'.replies[i].dup

HoldQueuesEmpty(pa) ==
  pa.describeRequestsOnHold = <<>> /\ pa.readerAddRequestsOnHold = <<>>

C7_Ready(a) ==
  LET pa == actors[a]
      K == pa.conf.maxReaders
      s == actors'[a].stream
  IN (StaticSourceHandlerSetReady(a, TRUE) /\ HasOnDemandStaticSource(pa.conf)) =>
       /\ s = [parent |-> "static", ok |-> TRUE]
       /\ \A i \in DOMAIN pa.describeRequestsOnHold :
            Answered(pa.describeRequestsOnHold[i], ResStream(s))
       /\ \A j \in DOMAIN pa.readerAddRequestsOnHold :
            Answered(pa.readerAddRequestsOnHold[j],
                     IF K = 0 \/ Cardinality(pa.readers) + j <= K THEN ResStream(s)
                     ELSE ResErr("maximum reader count reached"))
       /\ HoldQueuesEmpty(actors'[a])

C7_Timeout(a) ==
  LET pa == actors[a]
  IN OnDemandStaticSourceReadyTimer(a) =>
       /\ \A i \in DOMAIN OnHold(a) : Answered(OnHold(a)[i], ResErr("timed out"))
       /\ HoldQueuesEmpty(actors'[a])

\* C7 (amended): when an on-demand static source signals ready, every queued
\* Describe gets the now-ready stream, and the queued AddReader requests get it
\* in queue order until MaxReaders readers are attached: the ones after that
\* fail with the max-readers error and do not become readers; when the ready timer fires
\* first, every
\* queued request fails with the timed-out error.  Either way each queued
\* request gets one reply and both queues are empty afterwards.
C7_SameOutcome ==
  [][\A a \in ActorIds : C7_Ready(a) /\ C7_Timeout(a)]_vars

\* C7 as stated: when the source signals ready, all queued requests succeed
\* with the now-ready stream.
C7_AsStated ==
  [][\A a \in ActorIds :
       (StaticSourceHandlerSetReady(a, TRUE) /\ HasOnDemandStaticSource(actors[a].conf)) =>
          \A i \in DOMAIN OnHold(a) : Answered(OnHold(a)[i], ResStream(actors'[a].stream))]_vars

\* C7 witness: the source became ready with two AddReader requests on hold
\* and MaxReaders = 1: the first got the stream, the second was refused.
C7_Witness ==
  \E i \in DOMAIN out.replies : \E j \in DOMAIN out.replies :
    /\ out.replies[i].by \in ActorIds
    /\ out.replies[i].op = "addReader" /\ out.replies[j].op = "addReader"
    /\ out.replies[i].by = out.replies[j].by
    /\ HasOnDemandStaticSource(actors[out.replies[i].by].conf)
    /\ out.replies[i].res = ResStream(actors[out.replies[i].by].stream)
    /\ out.replies[j].res = ResErr("maximum reader count reached")

AllTimedOut(a) ==
  /\ \A i \in DOMAIN OnHold(a) : Answered(OnHold(a)[i], ResErr("timed out"))
  /\ Len(out'.replies) = Len(OnHold(a))
  /\ HoldQueuesEmpty(actors'[a])

C8_Static(a) ==
  (OnDemandStaticSourceReadyTimer(a)
     /\ actors[a].onDemandStaticSourceState = "waitingReady") =>
    /\ AllTimedOut(a)
    /\ actors'[a].onDemandStaticSourceState = "initial"
    /\ ~actors'[a].srcRunning
    /\ ~actors'[a].onDemandStaticSourceReadyTimer
    /\ ~actors'[a].onDemandStaticSourceCloseTimer

C8_Publisher(a) ==
  (OnDemandPublisherReadyTimer(a)
     /\ actors[a].onDemandPublisherState = "waitingReady") =>
    /\ AllTimedOut(a)
    /\ actors'[a].onDemandPublisherState = "initial"
    /\ actors[a].onUnDemandHook /\ ~actors'[a].onUnDemandHook
    /\ ~actors'[a].onDemandPublisherReadyTimer
    /\ ~actors'[a].onDemandPublisherCloseTimer
    /\ ~crashed'

\* A ready timer is armed in WaitingReady only.
ReadyTimerInWaitingReady ==
  \A a \in ActorIds :
    /\ actors[a].onDemandStaticSourceReadyTimer =>
         actors[a].onDemandStaticSourceState = "waitingReady"
    /\ actors[a].onDemandPublisherReadyTimer =>
         actors[a].onDemandPublisherState = "waitingReady"

\* C8: when the ready timer of an on-demand machine fires in WaitingReady,
\* every request on hold fails with the timed-out error and nothing else is
\* replied, the on-demand resource is stopped (the static source, or the launch
\* through its teardown hook), and afterwards the machine is in Initial with
\* no timer armed and both hold queues empty; the timer is never armed in
\* another state.
C8_ReadyTimeout ==
  [][/\ ReadyTimerInWaitingReady'
     /\ \A a \in ActorIds : C8_Static(a) /\ C8_Publisher(a)]_vars

\* C8 witness: the ready timer has failed two held requests and the machine
\* is back in Initial.
C8_Witness ==
  /\ Len(out.replies) = 2
  /\ \A i \in DOMAIN out.replies :
       /\ out.replies[i].res = ResErr("timed out")
       /\ out.replies[i].by \in ActorIds
       /\ actors[out.replies[i].by].onDemandStaticSourceState = "initial"
       /\ HasOnDemandStaticSource(actors[out.replies[i].by].conf)
       /\ HoldQueuesEmpty(actors[out.replies[i].by])

\* C9: a pattern-matched actor at its select with no source, no readers and
\* no request on hold is there only because a request routed to it is still
\* to be taken: once that request is resolved the actor has left its loop to
\* terminate.
C9_IdleEphemeralCloses ==
  \A a \in ActorIds :
    (actors[a].phase = "run" /\ ~actors[a].cancelled /\ shouldClose(actors[a])) =>
      \E c \in Clients : clients[c].pc = "toActor" /\ clients[c].target = a

SameConfs == pm.pc = "reload" /\ pm.newPaths = pathConfs

\* C10: ReloadPathConfs called with the registry's current configuration set
\* is a no-op: nothing is marked for recreation or reload, no iteration of
\* the loop over the index removes, cancels, renames or reloads an actor, and
\* the end of the reload creates no actor and leaves the index, the readiness
\* flags and the configuration set as they are.
C10_SameConfsNoOp ==
  [][/\ SameConfs' => (pm'.confsToRecreate = {} /\ pm'.confsToReload = {})
     /\ \A n \in Names :
          (SameConfs /\ ReloadStep(n)) => (actors' = actors /\ paths' = paths)
     /\ (SameConfs /\ ReloadFinish) =>
          (actors' = actors /\ paths' = paths /\ nextId' = nextId
             /\ pathConfs' = pathConfs)]_vars

\* C10 witness: the loop of an identical reload has passed over a ready path
\* with a reader.
C10_Witness ==
  /\ SameConfs /\ pm.todo = {}
  /\ paths["cam"].path # 0 /\ paths["cam"].ready
  /\ actors[paths["cam"].path].readers # {}

\* The reload in progress changes recordPath of the configuration cn and
\* nothing else of the configuration set.
RecordPathOnly(cn) ==
  /\ pm.pc = "reload"
  /\ cn \in DOMAIN pathConfs /\ DOMAIN pm.newPaths = DOMAIN pathConfs
  /\ pm.newPaths[cn].recordPath # pathConfs[cn].recordPath
  /\ pm.newPaths = [pathConfs EXCEPT ![cn].recordPath = pm.newPaths[cn].recordPath]

Recording(pa) == pa.stream # NilStream /\ pa.recorder # "nil"

C11_Registry(n) ==
  LET a == paths[n].path
      cn == paths[n].confName
  IN (ReloadStep(n) /\ RecordPathOnly(cn)) =>
       /\ paths' = paths
       /\ actors' = [actors EXCEPT ![a].chReloadConf = @ \cup {pm.newPaths[cn]}]

C11_Actor(a) ==
  \A newConf \in actors[a].chReloadConf :
    (PathReloadConf(a, newConf) /\ Recording(actors[a])
       /\ newConf = [actors[a].conf EXCEPT !.recordPath = newConf.recordPath]
       /\ newConf.recordPath # actors[a].conf.recordPath) =>
      /\ actors[a].recorder = actors[a].conf.recordPath
      /\ actors' = [actors EXCEPT ![a].conf = newConf,
                                  ![a].recorder = newConf.recordPath,
                                  ![a].chReloadConf = @ \ {newConf}]
      /\ paths' = paths /\ clients' = clients /\ [out' EXCEPT !.log = <<>>] = NoOut

\* C11: when ReloadPathConfs changes only recordPath of a configuration, the
\* registry keeps the actors of that configuration (it removes none from the
\* index, cancels none and only hands each the new configuration), the end of
\* the reload leaves them as they are, and an actor that takes the new
\* configuration while ready and recording ends the recorder of the old
\* recordPath and has a recorder of the new one, with its source, stream,
\* readers, hold queues, on-demand states and timers unchanged.
C11_RecordPathReload ==
  [][/\ \A n \in Names : C11_Registry(n)
     /\ (ReloadFinish /\ \E cn \in DOMAIN pathConfs : RecordPathOnly(cn)) =>
          (actors' = actors /\ paths' = paths)
     /\ \A a \in ActorIds : C11_Actor(a)]_vars

\* C11 witness: a ready path with a reader records under the new recordPath
\* after the reload, in the same actor as before.
C11_Witness ==
  \E a \in ActorIds :
    /\ actors[a].phase = "run" /\ ~actors[a].cancelled
    /\ actors[a].conf.recordPath = "rec2" /\ actors[a].recorder = "rec2"
    /\ actors[a].stream.ok /\ actors[a].readers # {}
    /\ paths["cam"].path = a /\ pm.pc = "idle" /\ reloads = 1

\* The fields PathConfCanBeUpdated lets a hot reload change.
SafeFields == {"name", "regexp", "record", "recordPath", "rpiCameraBrightness"}
AgreeOutsideSafe(old, new) == \A f \in DOMAIN old \ SafeFields : old[f] = new[f]

\* The actors that a step of the registry handed a configuration to.
HandedTo(a) == actors'[a].chReloadConf \ actors[a].chReloadConf

\* C12: PathConfCanBeUpdated(old, new) is true exactly when old and new agree
\* on every field other than name, pattern, the record fields and the camera
\* tuning fields, for every pair of a current and a new configuration that a
\* reload compares; the registry hands a new configuration to a live actor,
\* and the actor takes it, only when it agrees with the actor's configuration
\* on all those other fields.
C12_CanBeUpdated ==
  [][/\ pm'.pc = "reload" =>
          \A o \in DOMAIN pathConfs' : \A n \in DOMAIN pm'.newPaths :
            PathConfCanBeUpdated(pathConfs'[o], pm'.newPaths[n])
              <=> AgreeOutsideSafe(pathConfs'[o], pm'.newPaths[n])
     /\ \A a \in ActorIds :
          /\ \A newConf \in HandedTo(a) :
               AgreeOutsideSafe(actors[a].conf, newConf) /\ actors[a].phase # "none"
          /\ \A newConf \in actors[a].chReloadConf :
               PathReloadConf(a, newConf) => AgreeOutsideSafe(actors[a].conf, newConf)]_vars

\* C12 witness: an actor has taken a configuration that differs from its
\* previous one in name, pattern, recordPath and camera tuning at once.
C12_Witness ==
  \E a \in ActorIds :
    /\ actors[a].phase = "run" /\ actors[a].chReloadConf = {} /\ reloads = 1
    /\ actors[a].conf.name = "~^cam" /\ actors[a].name = "cam"
    /\ actors[a].conf.recordPath = "rec2" /\ actors[a].conf.rpiCameraBrightness = "b2"
    /\ paths["cam"] = [path |-> a, ready |-> TRUE, confName |-> "~^cam"]

C13_Step(n) ==
  LET a == paths[n].path
      old == pathConfs[paths[n].confName]
      new == FindPathConf(pm.newPaths, n)
      destroyed == /\ paths' = [paths EXCEPT ![n] = NoPath]
                   /\ actors' = [actors EXCEPT ![a].cancelled = TRUE]
                   /\ pm'.waitFor = a
      kept == /\ paths' = [paths EXCEPT ![n].confName = new.name]
              /\ actors' = [actors EXCEPT ![a].chReloadConf =
                                            IF new = old THEN @ ELSE @ \cup {new}]
              /\ ~actors'[a].cancelled
              /\ pm'.waitFor = 0
  IN ReloadStep(n) =>
       /\ a # 0 /\ actors[a].phase \in {"run", "closing"} /\ ~actors[a].cancelled
       /\ IF ~FindPathConfFound(pm.newPaths, n) THEN destroyed
          ELSE IF ~AgreeOutsideSafe(old, new) THEN destroyed
          ELSE kept

\* C13: in the handling of a ReloadPathConfs every actor of the index is
\* visited once: one whose name resolves to no configuration of the new set,
\* or whose configuration differs from the resolved one in a field that is
\* not hot-reloadable, is taken out of the index and cancelled, and the
\* registry goes on only when that actor has signalled completion; one whose
\* configuration differs in hot-reloadable fields only stays in the index as
\* the same actor and is handed the new configuration; at the end the
\* registry's set is the new set, the index entries that were kept are as
\* they were, and the index holds an actor for every fixed-name configuration
\* of the new set.
C13_ReloadProcessed ==
  [][/\ \A n \in Names : C13_Step(n)
     /\ (pm.pc = "reload" /\ pm.waitFor # 0 /\ pm' # pm) =>
          actors[pm.waitFor].phase = "done"
     /\ pm'.pc = "reload" => pm'.todo \subseteq {n \in Names : paths'[n].path # 0}
     /\ ReloadFinish =>
          /\ pm.todo = {} /\ pathConfs' = pm.newPaths
          /\ \A n \in Names : paths[n].path # 0 => paths'[n] = paths[n]
          /\ \A a \in ActorIds : actors[a].phase # "none" => actors'[a] = actors[a]
          /\ \A n \in FixedNames(pm.newPaths) :
               /\ paths'[n].path # 0
               /\ actors'[paths'[n].path].phase \in {"run", "closing"}
               /\ actors'[paths'[n].path].name = n]_vars

\* C13 witness: a reload that moved the configuration to another fixed name
\* is over: the actor of the old name is destroyed and complete, and the index
\* holds a new actor for the new name.
C13_Witness ==
  /\ pm.pc = "idle" /\ reloads = 1
  /\ actors[1].name = "cam" /\ actors[1].phase = "done" /\ actors[1].cancelled
  /\ paths["cam"] = NoPath
  /\ "none" \in FixedNames(pathConfs)
  /\ paths["none"].path = 2 /\ actors[2].phase = "run" /\ actors[2].name = "none"

\* The registry is inside removeAndClosePath, at path.wait().
WaitingFor(a) == pm.pc = "reload" /\ pm.waitFor = a /\ actors[a].phase # "done"

\* C14: while the registry waits for an actor it destroyed during a reload it
\* handles no other message and creates no actor: until that actor has
\* signalled completion the index, the configuration set, the reload in
\* progress and the set of created actors stay as they are, no request is
\* routed and no notification of an actor is taken; and no actor created later
\* for the name of the destroyed actor is running before the destroyed actor is done.
C14_DestroyIsSynchronous ==
  [][\A a \in ActorIds :
       /\ WaitingFor(a) =>
            /\ pm' = pm /\ paths' = paths /\ pathConfs' = pathConfs /\ nextId' = nextId
            /\ \A c \in Clients :
                 clients'[c].pc = "toActor" => clients[c].pc = "toActor"
            /\ \A b \in ActorIds : actors[b].phase = "none" => actors'[b].phase = "none"
       /\ WaitingFor(a)' =>
            /\ paths'[actors'[a].name].path = 0
            /\ actors'[a].cancelled
            /\ \A b \in ActorIds :
                 (b > a /\ actors'[b].name = actors'[a].name) => actors'[b].phase = "none"]_vars

\* C14 witness: the reload has replaced a destroyed actor: the old actor is
\* complete and the new actor of the same name is running.
C14_Witness ==
  \E a, b \in ActorIds :
    /\ a < b /\ actors[a].name = "cam" /\ actors[b].name = "cam"
    /\ actors[a].phase = "done" /\ actors[a].cancelled
    /\ actors[b].phase = "run" /\ paths["cam"].path = b
    /\ pm.pc = "idle" /\ reloads = 1
    /\ \E c \in Clients : clients[c].pc = "toActor"

\* The actor after a step, but for its position in run().
SamePhase(a) == [actors'[a] EXCEPT !.phase = actors[a].phase]

C15_Queued(c, a) ==
  LET pa == actors[a]
      static == HasOnDemandStaticSource(pa.conf)
      state == IF static THEN pa.onDemandStaticSourceState ELSE pa.onDemandPublisherState
      state2 == IF static THEN actors'[a].onDemandStaticSourceState
                ELSE actors'[a].onDemandPublisherState
  IN /\ ~Replied(c) /\ out'.replies = <<>> /\ clients'[c].pc = "held"
     /\ actors'[a].describeRequestsOnHold = Append(pa.describeRequestsOnHold, Req(c))
     /\ actors'[a].readerAddRequestsOnHold = pa.readerAddRequestsOnHold
     /\ IF state = "initial"
        THEN out'.started = 1 /\ state2 = "waitingReady"
        ELSE out'.started = 0 /\ state2 = state

C15_Step(c) ==
  LET a == clients[c].target
      pa == actors[a]
      answer(r) == /\ Replied(c) /\ ReplyOf(c) = r /\ Len(out'.replies) = 1
                   /\ SamePhase(a) = pa /\ clients'[c].pc = "idle"
  IN PathDescribe(c) =>
       IF pa.source = "redirect" THEN answer(ResRedirect(pa.conf.sourceRedirect))
       ELSE IF isReady(pa) THEN answer(ResStream(pa.stream))
       ELSE IF HasOnDemandStaticSource(pa.conf) \/ HasOnDemandPublisher(pa.conf)
       THEN C15_Queued(c, a)
       ELSE IF pa.conf.fallback # "" THEN answer(ResRedirect(pa.conf.fallback))
       ELSE answer(ResErr("no stream available"))

\* A publisher in the source slot of a running actor has its initialised
\* stream in place.
PublisherStream ==
  \A a \in ActorIds : (Serving(a) /\ actors[a].source \in Publishers) =>
    actors[a].stream = [parent |-> actors[a].source, ok |-> TRUE]

\* C15: a Describe is answered from the state the actor is in when it takes
\* the request, in this order: a redirect source gives the redirect target;
\* else a stream handle in place gives that stream; else with an on-demand
\* static source or an on-demand publisher launch configured the request is
\* put on hold without a reply, and the machine is started if it is in
\* Initial and left alone if not; else a configured fallback gives a redirect
\* to it; else the no-stream-available error.  An answered Describe changes
\* nothing in the actor.  While a publisher is in the source slot the stream
\* is that publisher's, so a Describe taken then returns it, and a
\* RemovePublisher by the publisher in the slot leaves no stream, so a
\* Describe taken after it does not.
C15_DescribeOrder ==
  [][/\ \A c \in Readers : C15_Step(c)
     /\ PublisherStream'
     /\ \A p \in Publishers :
          (PathRemovePublisher(p) /\ actors[clients[p].att].source = p /\ ~crashed') =>
             actors'[clients[p].att].stream = NilStream]_vars

\* C15 witness: a Describe taken while p1 is attached was answered with the
\* stream of p1, on a path that has a fallback configured.
C15_Witness ==
  \E i \in DOMAIN out.replies :
    /\ out.replies[i].op = "describe" /\ out.replies[i].by \in ActorIds
    /\ out.replies[i].res = ResStream([parent |-> "p1", ok |-> TRUE])
    /\ actors[out.replies[i].by].source = "p1"
    /\ actors[out.replies[i].by].conf.fallback # ""

C16_Step(c) ==
  LET a == clients[c].target
      pa == actors[a]
      rejected(e) == /\ Replied(c) /\ ReplyOf(c) = ResErr(e) /\ Len(out'.replies) = 1
                     /\ out'.closed = {} /\ out'.started = 0
                     /\ actors' = actors /\ paths' = paths
                     /\ clients' = [clients EXCEPT ![c] = NewClient]
  IN PathAddPublisher(c) =>
       IF pa.conf.source # "publisher" THEN rejected("source is not publisher")
       ELSE IF pa.source # "nil" /\ ~pa.conf.overridePublisher
       THEN rejected("someone is already publishing")
       ELSE Replied(c) =>
              ReplyOf(c).err \notin {"source is not publisher", "someone is already publishing"}

\* C16: an AddPublisher taken by an actor whose source kind is not publisher,
\* or whose source slot is taken while override is disabled, is answered with
\* that error and nothing else happens: the actor (source, stream, readers,
\* hold queues, on-demand states, timers, recorder) and the index are as
\* before, nobody is closed, nothing is started, and the caller is not
\* attached; no other AddPublisher is answered with these two errors.
C16_RejectedAddPublisher ==
  [][\A c \in Publishers : C16_Step(c)]_vars

\* C16 witness: a publisher was turned away by a ready static-source path
\* that has a reader.
C16_Witness ==
  \E i \in DOMAIN out.replies :
    /\ out.replies[i].op = "addPublisher" /\ out.replies[i].by \in ActorIds
    /\ out.replies[i].res = ResErr("source is not publisher")
    /\ actors[out.replies[i].by].source = "static"
    /\ actors[out.replies[i].by].stream.ok
    /\ actors[out.replies[i].by].readers # {}

C17_Step(p) ==
  LET a == clients[p].att
      pa == actors[a]
  IN PathRemovePublisher(p) =>
       /\ out'.replies = <<>> /\ clients' = [clients EXCEPT ![p].att = 0]
       /\ IF pa.source = p
          THEN /\ actors'[a].source = "nil"
               /\ actors'[a].stream = NilStream /\ actors'[a].recorder = "nil"
               /\ actors'[a].readers = {} /\ out'.closed = pa.readers
               /\ (paths[pa.name].path = a => ~paths'[pa.name].ready)
          ELSE /\ actors' = actors /\ paths' = paths
               /\ out'.closed = {} /\ out'.started = 0

\* C17: a RemovePublisher is acknowledged without a reply value and detaches
\* its caller; when its author is in the source slot the slot is cleared, the
\* path is not ready any more (no stream, no recorder, not ready in the index)
\* and every reader is taken out of the reader set and closed; when its
\* author is not in the source slot the actor is left exactly as it was,
\* its position in its loop included, nobody is closed and the index is
\* unchanged.
C17_RemovePublisher ==
  [][\A p \in Publishers : C17_Step(p)]_vars

\* The on-demand states and the four timers of an actor.
OnDemandPart(pa) ==
  <<pa.onDemandStaticSourceState, pa.onDemandStaticSourceReadyTimer,
    pa.onDemandStaticSourceCloseTimer, pa.onDemandPublisherState,
    pa.onDemandPublisherReadyTimer, pa.onDemandPublisherCloseTimer>>

\* C18: a RemoveReader whose author is not in the reader set changes
\* nothing: the reader set, the two on-demand states and the four timers of
\* the actor are after the call what they were before it.
C18_AbsentReaderNoOp ==
  [][\A r \in Readers :
       (PathRemoveReader(r) /\ r \notin actors[clients[r].att].readers) =>
          /\ actors'[clients[r].att].readers = actors[clients[r].att].readers
          /\ OnDemandPart(actors'[clients[r].att]) = OnDemandPart(actors[clients[r].att])]_vars

\* The step is a Describe, AddReader or AddPublisher call of c for name n.
RegistryCall(c, n, skipAuth, authOK) ==
  \/ Describe(c, n, skipAuth, authOK)
  \/ AddReader(c, n, skipAuth, authOK)
  \/ \E ok \in BOOLEAN : AddPublisher(c, n, skipAuth, authOK, ok, {})

\* The step is the registry's handling of a call of c: c was answered by the
\* registry or handed to an actor.
CalledBy(c) ==
  IF clients[c].pc = "idle" /\ clients'[c].pc = "toActor" THEN TRUE
  ELSE \E i \in DOMAIN out'.replies : out'.replies[i].to = c /\ out'.replies[i].by = 0

\* The registry answered the call itself, with the error e, and did nothing else.
RefusedWith(c, e) ==
  /\ Len(out'.replies) = 1
  /\ out'.replies[1].to = c /\ out'.replies[1].by = 0 /\ out'.replies[1].res = ResErr(e)
  /\ actors' = actors /\ paths' = paths /\ nextId' = nextId
  /\ clients' = clients /\ pathConfs' = pathConfs

\* C19: a Describe, AddReader or AddPublisher for a name that resolves to no
\* configuration is answered by the registry with the not-configured error,
\* and one that is authenticated and denied with the authentication error;
\* whenever the registry answers a call with an error it has created no actor
\* and the index is as before; FindPathConf answers with the configuration
\* or with one of the two errors and never creates an actor or changes the
\* index.
C19_NoActorOnError ==
  [][\A c \in Clients : CalledBy(c) =>
      \A n \in Names, skipAuth \in BOOLEAN, authOK \in BOOLEAN :
       /\ RegistryCall(c, n, skipAuth, authOK) =>
            /\ ~FindPathConfFound(pathConfs, n) => RefusedWith(c, "not configured")
            /\ (FindPathConfFound(pathConfs, n) /\ ~skipAuth /\ ~authOK) =>
                 RefusedWith(c, "not authorized")
            /\ out'.replies # <<>> =>
                 (RefusedWith(c, "not configured") \/ RefusedWith(c, "not authorized"))
       /\ doFindPathConf(c, n, authOK) =>
            /\ actors' = actors /\ paths' = paths /\ nextId' = nextId
            /\ IF ~FindPathConfFound(pathConfs, n) THEN RefusedWith(c, "not configured")
               ELSE IF ~authOK THEN RefusedWith(c, "not authorized")
               ELSE out'.replies[1].res.err = ""
                    /\ out'.replies[1].res.conf = FindPathConf(pathConfs, n)]_vars

\* C19 witness: a publisher was denied on a name that a pattern configuration
\* matches, and the index has no actor for that name.
C19_Witness ==
  /\ Len(out.replies) = 1
  /\ out.replies[1].op = "addPublisher" /\ out.replies[1].by = 0
  /\ out.replies[1].res = ResErr("not authorized")
  /\ FindPathConfFound(pathConfs, "cam") /\ paths["cam"].path = 0
  /\ \A a \in ActorIds : actors[a].phase \in {"none", "done"}
  /\ reloads = 1

\* C20: for Describe, AddReader and AddPublisher a call marked as
\* skip-authentication has the same outcome whether the authentication
\* service would allow or deny it: the step the registry takes for a denied
\* one is the step it takes for an allowed one.
C20_SkipAuthBypasses ==
  [][\A c \in Clients : CalledBy(c) =>
      \A n \in Names :
        /\ Describe(c, n, TRUE, FALSE) => Describe(c, n, TRUE, TRUE)
        /\ AddReader(c, n, TRUE, FALSE) => AddReader(c, n, TRUE, TRUE)
        /\ \A ok \in BOOLEAN :
             AddPublisher(c, n, TRUE, FALSE, ok, {}) => AddPublisher(c, n, TRUE, TRUE, ok, {})]_vars

\* The registry refuses the AddPublisher of p for the name n, whose expected
\* configuration differs from the one it resolves, and does nothing else.
C21_Registry(p, n) ==
  \A skipAuth \in BOOLEAN, authOK \in BOOLEAN, ok \in BOOLEAN :
     \A confToCompare \in ConfsToCompare(pathConfs, n) :
       (/\ AddPublisher(p, n, skipAuth, authOK, ok, confToCompare)
        /\ FindPathConfFound(pathConfs, n)
        /\ confToCompare # {}
        /\ FindPathConf(pathConfs, n) \notin confToCompare)
       => RefusedWith(p, "configuration has changed")

\* The actor accepts the AddPublisher of p, which carries an expected
\* configuration: the publisher is attached under that configuration, which
\* the actor runs under or has been sent by a reload and not taken yet.
C21_Attach(p) ==
  (/\ PathAddPublisher(p)
   /\ clients[p].exp # {}
   /\ clients'[p].att # 0)
  => LET pa == actors'[clients'[p].att]
     IN clients[p].exp \cap ({pa.conf} \cup pa.chReloadConf) # {}

\* C21: a publisher is never attached under a configuration other than the
\* one it expected: an AddPublisher whose expected configuration differs from
\* the one the registry resolves for the name fails with the
\* configuration-changed error, creates no actor and attaches nothing, and an
\* AddPublisher that an actor accepts attaches the publisher to an actor that
\* runs under the expected configuration, also when a reload of the path
\* races with it.
C21_ExpectedConf ==
  [][\A p \in Publishers :
       /\ CalledBy(p) => \A n \in Names : C21_Registry(p, n)
       /\ C21_Attach(p)]_vars

\* The actor a has a stream that was initialised: the path is ready.
StreamReady(as, a) == as[a].stream # NilStream /\ as[a].stream.ok

ToldHLS(call, a) ==
  \E i \in DOMAIN out'.hls : out'.hls[i].call = call /\ out'.hls[i].path = a

\* C22: once an HLS server is attached with SetHLSServer it is told of every
\* ready path and of every readiness change: SetHLSServer returns the actors
\* the index records as ready, and from then on every step in which an actor
\* that has not been cancelled becomes ready makes a PathReady call for it,
\* and every step in which an actor becomes not ready (by a source or
\* publisher event, by a timer or by its destruction) makes a PathNotReady
\* call for it.
C22_HLSToldOfReadiness ==
  [][/\ SetHLSServer =>
          out'.readyPaths = {a \in ActorIds : \E n \in Names : paths[n].path = a /\ paths[n].ready}
     /\ hlsServer =>
          \A a \in ActorIds :
             /\ (~actors[a].cancelled /\ ~StreamReady(actors, a) /\ StreamReady(actors', a))
                  => ToldHLS("PathReady", a)
             /\ (StreamReady(actors, a) /\ ~StreamReady(actors', a))
                  => ToldHLS("PathNotReady", a)]_vars

Elements(q) == {q[i] : i \in DOMAIN q}

\* One iteration of the loop of APIPathsList for the index entry n: an actor
\* that answers adds its snapshot, under the name of the entry, and an actor
\* that does not adds nothing.
C23_Item(n) ==
  /\ APIPathsListItem(n, TRUE) =>
       /\ Len(api'.items) = Len(api.items) + 1
       /\ api'.items[Len(api'.items)] = doAPIPathsGet(actors[api.paths[n]])
       /\ api'.items[Len(api'.items)].name = n
       /\ \A i \in DOMAIN api.items : api'.items[i] = api.items[i] /\ api.items[i].name # n
  /\ (APIPathsListItem(n, FALSE) /\ ~APIPathsListItem(n, TRUE)) => api'.items = api.items

\* C23: ListSnapshots returns one snapshot for each actor of the registry
\* index that answers the query, in strictly ascending order of name, and
\* GetSnapshot of a name that has no actor in the index fails with the
\* not-found error.
C23_Snapshots ==
  [][/\ api.pc = "list" => \A n \in Names : C23_Item(n)
     /\ APIPathsListReturn =>
          /\ out'.api.op = "list" /\ out'.api.err = ""
          /\ Len(out'.api.items) = Len(api.items)
          /\ Elements(out'.api.items) = Elements(api.items)
          /\ \A i \in 1..(Len(out'.api.items) - 1) :
               NameLess(out'.api.items[i].name, out'.api.items[i + 1].name)
     /\ api.pc = "idle" =>
          \A n \in Names : (APIPathsGet(n) /\ paths[n].path = 0) =>
             /\ out'.api = [op |-> "get", err |-> "path not found", items |-> <<>>]
             /\ api' = api /\ actors' = actors /\ paths' = paths]_vars

\* C23 witness: a list of two snapshots has been returned.
C23_Witness == out.api.op = "list" /\ Len(out.api.items) = 2

\* The actor a has left its loop: runInner has returned.
ShuttingDown(a) == actors[a].phase \in {"closing", "cleanup", "done"}

\* The call of c numbered id has just returned the terminated error.
Terminated(c, id) ==
  \E i \in DOMAIN out.replies :
     /\ out.replies[i].to = c /\ out.replies[i].id = id
     /\ out.replies[i].res = ResErr("terminated")

\* C24: no interleaving of registry, actors and callers deadlocks. Under fair
\* scheduling, and unless the process panics: a caller blocked on an actor
\* that has left its loop gets the terminated error; a caller blocked on an
\* actor that is cancelled returns; an actor that shuts down completes, also
\* while the registry waits for it and takes none of its notifications; and
\* the registry's wait for a destroyed actor, and with it the reload, ends.
C24_NoDeadlock ==
  /\ \A c \in Clients, id \in 1..MaxOps :
       (Blocked(c) /\ clients[c].id = id /\ ShuttingDown(clients[c].target))
          ~> (Terminated(c, id) \/ crashed)
  /\ \A c \in Clients :
       (Blocked(c) /\ actors[clients[c].target].cancelled) ~> (~Blocked(c) \/ crashed)
  /\ \A a \in ActorIds :
       (actors[a].cancelled \/ ShuttingDown(a)) ~> (actors[a].phase = "done" \/ crashed)
  /\ \A a \in ActorIds : (pm.waitFor = a) ~> (pm.waitFor # a \/ crashed)
  /\ (pm.pc = "reload") ~> (pm.pc = "idle" \/ crashed)

\* C24 witness: the registry waits for an actor it has cancelled, which has
\* left its loop with a caller still blocked on it.
C24_Witness ==
  \E a \in ActorIds, c \in Clients :
     /\ pm.waitFor = a /\ actors[a].phase = "closing"
     /\ clients[c].pc = "toActor" /\ clients[c].target = a

\* The hook observer has been notified of an activation of the actor a that
\* it has not been notified as stopped: the on-demand machine of a is not in
\* its initial state.
Demanded(pa) ==
  pa.onDemandStaticSourceState # "initial" \/ pa.onDemandPublisherState # "initial"

\* The step of the actor a keeps the notifications paired.
C25_Step(a) ==
  LET pa == actors[a]
      pa2 == actors'[a]
  IN (pa2 # pa /\ Serving(a) /\ ~crashed') =>
       /\ out'.started + out'.stopped <= 1
       /\ out'.started = 1 => (~Demanded(pa) /\ Demanded(pa2))
       /\ out'.stopped = 1 => (Demanded(pa) /\ ~Demanded(pa2))
       /\ (out'.started = 0 /\ out'.stopped = 0) => (Demanded(pa2) <=> Demanded(pa))
       /\ pa2.phase = "done" => ~Demanded(pa2)

\* C25: for each actor the on-demand notifications of the hook observer are
\* paired: an activation is notified as requested (OnDemand, OnDemandStatic)
\* only when none is outstanding, as stopped (OnUnDemand, OnUnDemandStatic)
\* only when one is outstanding, and an actor that completes its shutdown has
\* none outstanding.
C25_PairedNotifications ==
  [][\A a \in ActorIds : C25_Step(a)]_vars

\* ------------------------------------------------------------------ C26

C26_Returns ==
  \A k \in ConfCallers : (confAPI.calls[k].pc # "idle") ~> (confAPI.calls[k].pc = "idle")

C26_Stored ==
  [][\A k \in ConfCallers :
       (confAPI.calls[k].pc = "send" /\ confAPI'.calls[k].pc = "idle")
         => confAPI.calls[k].name \in core'.paths]_vars

\* C26: a caller that entered AddPathConfig returns whether Core.run was never
\* started or is running, and when it returns nil the name it added is among the
\* paths of Core.Conf.
C26_AddPathConfig == C26_Returns /\ C26_Stored

\* ------------------------------------------------------------------ C27

\* The on-demand machine of the actor's configuration and its idle-close timer.
OnDemandState(pa) ==
  IF HasOnDemandStaticSource(pa.conf) THEN pa.onDemandStaticSourceState
  ELSE IF HasOnDemandPublisher(pa.conf) THEN pa.onDemandPublisherState
  ELSE "initial"
OnDemandCloseTimer(pa) ==
  IF HasOnDemandStaticSource(pa.conf) THEN pa.onDemandStaticSourceCloseTimer
  ELSE pa.onDemandPublisherCloseTimer

C27_Actor(pa) ==
  /\ OnDemandState(pa) = "closing"
       => OnDemandCloseTimer(pa) /\ isReady(pa) /\ pa.readers = {}
  /\ OnDemandState(pa) = "ready"
       => ~OnDemandCloseTimer(pa) /\ pa.readers # {}

\* C27: in every state of a running actor whose on-demand machine is past
\* WaitingReady, the machine is in Closing exactly when the path is ready
\* without readers, and then the idle-close timer is armed; it is in Ready
\* exactly when a reader is attached, and then the timer is not armed.
C27_ClosingIffNoReaders ==
  \A a \in ActorIds : actors[a].phase = "run" => C27_Actor(actors[a])

\* ------------------------------------------------------------------ C28

\* The requests on the hold queues of an actor, and the step answered all of
\* them with the timeout error.
HeldRequests(pa) ==
  {<<r.author, r.id>> : r \in Elements(pa.describeRequestsOnHold)
                               \cup Elements(pa.readerAddRequestsOnHold)}
TimedOut(a) ==
  \A h \in HeldRequests(actors[a]) :
    \E i \in DOMAIN out'.replies :
      /\ out'.replies[i].to = h[1] /\ out'.replies[i].id = h[2]
      /\ out'.replies[i].by = a /\ out'.replies[i].res.err = "timed out"

C28_Static(a) ==
  (OnDemandStaticSourceCloseTimer(a) /\ actors[a].onDemandStaticSourceState = "closing"
     /\ ~crashed')
    => /\ actors'[a].onDemandStaticSourceState = "initial"
       /\ ~actors'[a].onDemandStaticSourceCloseTimer
       /\ ~actors'[a].srcRunning /\ ~isReady(actors'[a])
       /\ out'.stopped = 1

C28_Publisher(a) ==
  (OnDemandPublisherCloseTimer(a) /\ actors[a].onDemandPublisherState = "closing")
    => /\ actors'[a].onDemandPublisherState = "initial"
       /\ ~actors'[a].onDemandPublisherCloseTimer
       /\ ~actors'[a].onUnDemandHook
       /\ out'.stopped = 1

C28_Pending(a) ==
  ((OnDemandStaticSourceCloseTimer(a) /\ actors[a].onDemandStaticSourceState = "closing")
     \/ (OnDemandPublisherCloseTimer(a) /\ actors[a].onDemandPublisherState = "closing"))
    => \/ crashed'
       \/ /\ TimedOut(a)
          /\ actors'[a].describeRequestsOnHold = <<>>
          /\ actors'[a].readerAddRequestsOnHold = <<>>

\* C28: a step in which the idle-close timer of a machine in Closing fires
\* leaves that machine in Initial with the timer disarmed and the on-demand
\* resource stopped (the static source stopped and the path not ready, or the
\* launch hook stopped), and answers every request on the hold queues with the
\* timeout error.
C28_IdleCloseFires ==
  [][\A a \in ActorIds : C28_Static(a) /\ C28_Publisher(a) /\ C28_Pending(a)]_vars

\* ------------------------------------------------------------------ C29

\* The step in which a shutting down actor closes pa.done.
Completes(a) == actors[a].phase = "cleanup" /\ actors'[a].phase = "done"

Terminates(a) ==
  \A h \in HeldRequests(actors[a]) :
    \E i \in DOMAIN out'.replies :
      /\ out'.replies[i].to = h[1] /\ out'.replies[i].id = h[2]
      /\ out'.replies[i].by = a /\ out'.replies[i].res.err = "terminated"

\* What the actor has done by the time it completes.
C29_Done(a) ==
  LET pa == actors[a]
      pb == actors'[a]
  IN /\ ~pb.onDemandStaticSourceReadyTimer /\ ~pb.onDemandStaticSourceCloseTimer
     /\ ~pb.onDemandPublisherReadyTimer /\ ~pb.onDemandPublisherCloseTimer
     /\ Terminates(a)
     /\ pb.readers = {} /\ pa.readers \subseteq out'.closed
     /\ pa.source \in Publishers => pa.source \in out'.closed
     /\ pa.source = "static" => ~pb.srcRunning
     /\ pb.recorder = "nil" /\ pb.stream = NilStream

\* x is done before y in the log l, when both are done.
Before(l, x, y) ==
  \A i, j \in DOMAIN l : (l[i] = x /\ l[j] = y) => i < j
InOrder(l, labels) ==
  \A m, n \in DOMAIN labels : m < n => Before(l, labels[m], labels[n])

\* C29 as stated: a completing actor has stopped its timers, answered the held
\* requests with terminated, detached and closed its readers and closed its
\* source and recorder, in the order timers, hooks (both the uninitialized and
\* the became-not-ready hook), pending requests, readers, source, completion.
C29_AsStated ==
  [][\A a \in ActorIds : Completes(a) =>
       /\ C29_Done(a)
       /\ InOrder(out'.log, <<"timers", "onUnInitHook", "pending", "readers", "source", "done">>)
       /\ InOrder(out'.log, <<"timers", "onNotReadyHook", "pending", "readers", "source",
                              "done">>)]_vars

\* C29, amended: the became-not-ready hook runs after the readers are detached
\* and before the recorder and the source are closed.
C29_ShutdownOrder ==
  [][\A a \in ActorIds : Completes(a) =>
       /\ C29_Done(a)
       /\ InOrder(out'.log, <<"timers", "onUnInitHook", "pending", "readers", "onNotReadyHook",
                              "recorder", "source", "done">>)]_vars

\* An actor has completed that was ready with a reader, a recorder and a
\* source at hand.
C29_Witness ==
  \A x \in {"timers", "onUnInitHook", "readers", "onNotReadyHook", "recorder", "source",
             "done"} : \E i \in DOMAIN out.log : out.log[i] = x

\* ------------------------------------------------------------------ C30

\* An armed timer of a slot belongs to the state of its machine.
C30_Slots(pa) ==
  /\ pa.onDemandStaticSourceReadyTimer => pa.onDemandStaticSourceState = "waitingReady"
  /\ pa.onDemandStaticSourceCloseTimer => pa.onDemandStaticSourceState = "closing"
  /\ pa.onDemandPublisherReadyTimer => pa.onDemandPublisherState = "waitingReady"
  /\ pa.onDemandPublisherCloseTimer => pa.onDemandPublisherState = "closing"

\* The handling of an expiry: the state the timer was armed for, and the slot
\* left without an armed timer unless the step armed a new one.
C30_Expiry(a) ==
  /\ OnDemandStaticSourceReadyTimer(a)
       => /\ actors[a].onDemandStaticSourceState = "waitingReady"
          /\ ~actors'[a].onDemandStaticSourceReadyTimer
  /\ OnDemandStaticSourceCloseTimer(a)
       => /\ actors[a].onDemandStaticSourceState = "closing"
          /\ ~actors'[a].onDemandStaticSourceCloseTimer
  /\ OnDemandPublisherReadyTimer(a)
       => /\ actors[a].onDemandPublisherState = "waitingReady"
          /\ ~actors'[a].onDemandPublisherReadyTimer
  /\ OnDemandPublisherCloseTimer(a)
       => /\ actors[a].onDemandPublisherState = "closing"
          /\ ~actors'[a].onDemandPublisherCloseTimer

\* C30: a slot of a running actor holds an armed timer only while its machine
\* is in the state the timer was armed for (a ready-timeout timer in
\* WaitingReady, an idle-close timer in Closing), so an expiry is handled only
\* in that state, and the handling leaves no armed timer behind in the slot.
C30_TimersAndStates ==
  [][\A a \in ActorIds :
       /\ actors'[a].phase = "run" => C30_Slots(actors'[a])
       /\ C30_Expiry(a)]_vars

\* The idle-close timer of an on-demand publisher machine has expired with the
\* publisher still attached: the machine is back in Initial on a ready path.
C30_Witness ==
  /\ out.stopped = 1
  /\ \E a \in ActorIds :
       /\ actors[a].phase = "run" /\ isReady(actors[a])
       /\ HasOnDemandPublisher(actors[a].conf)
       /\ actors[a].onDemandPublisherState = "initial"

\* ------------------------------------------------------------------ C31

\* The step did x.
DidIt(x) == \E i \in DOMAIN out'.log : out'.log[i] = x

\* A recorder is held only by a ready actor whose configuration records, and
\* it records as that configuration says.
C31_Held(pa) ==
  pa.recorder # "nil" => (isReady(pa) /\ pa.conf.record /\ pa.recorder = pa.conf.recordPath)

\* ReloadConf processed by a ready actor.
C31_Reload(a) ==
  \A newConf \in actors[a].chReloadConf :
    (PathReloadConf(a, newConf) /\ isReady(actors[a])) =>
      /\ actors'[a].recorder # "nil" <=> newConf.record
      /\ (DidIt("recorder") /\ DidIt("startRecording"))
           <=> (actors[a].recorder # "nil" /\ newConf.record
                  /\ RecordFieldsDiffer(newConf, actors[a].conf))
      /\ (actors[a].recorder # "nil" /\ ~RecordFieldsDiffer(newConf, actors[a].conf))
           => (~DidIt("recorder") /\ ~DidIt("startRecording"))

\* C31: an actor holds a recorder only while it is ready and its
\* configuration enables recording; a ready actor that has processed a
\* ReloadConf holds a recorder exactly when the new configuration enables
\* recording, and it closed its recorder and started a new one exactly when it
\* held one, still records, and a record-affecting field changed.
C31_Recorder ==
  [][\A a \in ActorIds : C31_Held(actors'[a]) /\ C31_Reload(a)]_vars

\* A ready actor has replaced its recorder in a reload.
C31_Witness ==
  /\ \E i \in DOMAIN out.log : out.log[i] = "recorder"
  /\ \E i \in DOMAIN out.log : out.log[i] = "startRecording"
  /\ \E a \in ActorIds : actors[a].phase = "run" /\ actors[a].recorder = "rec2"

\* ------------------------------------------------------------------ C32

\* No reload is being handled and no delivery waits for an actor.
ReloadsProcessed ==
  /\ pm.pc = "idle"
  /\ \A a \in ActorIds : actors[a].phase = "run" => actors[a].chReloadConf = {}

\* C32: once the registry has handled its reloads and every delivery has been
\* processed, the configuration of each running actor of the index is the one
\* the registry's current configuration set resolves for its name.
C32_LastReloadWins ==
  ReloadsProcessed =>
    \A n \in Names :
      (paths[n].path # 0 /\ actors[paths[n].path].phase = "run"
         /\ FindPathConfFound(pathConfs, n))
        => actors[paths[n].path].conf = FindPathConf(pathConfs, n)

\* ------------------------------------------------------------------ C33

OnDemandReadyTimer(pa) ==
  IF HasOnDemandStaticSource(pa.conf) THEN pa.onDemandStaticSourceReadyTimer
  ELSE pa.onDemandPublisherReadyTimer

\* C34: in every state of a running actor with a request on one of its hold
\* queues, the on-demand machine of the path is in WaitingReady and its
\* ready-timeout timer is armed.
C34_HeldMeansWaitingReady ==
  \A a \in ActorIds :
    (actors[a].phase = "run" /\ HeldRequests(actors[a]) # {})
      => (OnDemandState(actors[a]) = "waitingReady" /\ OnDemandReadyTimer(actors[a]))

\* ------------------------------------------------------------------ C35

\* C35: in every state of a running actor, a path that is ready (its stream
\* handle is set) has a source attached.
C35_ReadyHasSource ==
  \A a \in ActorIds :
    (actors[a].phase = "run" /\ isReady(actors[a])) => actors[a].source # "nil"

\* ------------------------------------------------------------------ C36

\* C36: in every state an actor with a reader has a stream handle, and every
\* step in which an actor stops being ready leaves it without readers.
C36_ReadersOnlyWhenReady ==
  [][\A a \in ActorIds :
       /\ actors'[a].readers # {} => isReady(actors'[a])
       /\ (isReady(actors[a]) /\ ~isReady(actors'[a])) => actors'[a].readers = {}]_vars

\* A running actor has just stopped being ready and its reader was closed.
C36_Witness ==
  \E a \in ActorIds :
    /\ actors[a].phase = "run" /\ ~isReady(actors[a]) /\ actors[a].readers = {}
    /\ out.closed \cap Readers # {}
    /\ \E i \in DOMAIN out.log : out.log[i] = "stream"

\* ------------------------------------------------------------------ C37

\* The actors created for a name that have not closed their done channel.
NotDone(n) ==
  {a \in ActorIds : actors[a].name = n /\ actors[a].phase \in {"run", "closing", "cleanup"}}

\* C37: for every path name at most one actor created for it has not yet
\* signalled completion.
C37_OneActorPerName == \A n \in Names : Cardinality(NotDone(n)) <= 1

\* ------------------------------------------------------------------ C38

\* The actor a is alive and is not the one the index holds under its name.
Stale(a) ==
  /\ actors[a].phase \in {"run", "closing", "cleanup"}
  /\ paths[actors[a].name].path # a

Logged(x) == \E i \in DOMAIN out.log : out.log[i] = x

\* C38: a step of an actor that is not the one indexed under its name, with
\* the notifications it sends, leaves the index as it is and makes no call on
\* the HLS server.
C38_StaleIgnored ==
  [][\A a \in ActorIds :
       (Stale(a) /\ actors'[a] # actors[a]) => (paths' = paths /\ out'.hls = <<>>)]_vars

\* An actor that closed itself has sent PathNotReady from the rest of run()
\* while its successor is indexed and ready and an HLS server is attached.
C38_Witness ==
  \E a \in ActorIds :
    /\ actors[a].phase \in {"done", "panicked"}
    /\ \A b \in ActorIds \ {a} : actors[b].phase \notin {"done", "panicked"}
    /\ Logged("onUnInitHook") /\ Logged("pathNotReady")
    /\ pm.pc = "idle" /\ hlsServer
    /\ paths[actors[a].name].path \notin {0, a} /\ paths[actors[a].name].ready

\* ------------------------------------------------------------------ C39

\* Core.run is at its select with nothing to do, no call of the API is under
\* way and the registry is idle.
ConfigSettled ==
  /\ core.run = "ok" /\ core.loop = "select" /\ ~core.ctxDone
  /\ pm.pc = "idle"
  /\ \A k \in ConfCallers : confAPI.calls[k].pc = "idle"

\* C39: with Core.run running, once every accepted change of the configuration
\* has been handled, the registry's configuration set names the paths of
\* Core.Conf.Paths.
C39_RegistryFollowsConf == ConfigSettled => DOMAIN pathConfs = core.paths

\* ------------------------------------------------------------------ C40

\* The on-demand machines and timers of an actor.
OnDemandFields(pa) ==
  <<pa.onDemandStaticSourceState, pa.onDemandStaticSourceReadyTimer,
    pa.onDemandStaticSourceCloseTimer, pa.onDemandPublisherState,
    pa.onDemandPublisherReadyTimer, pa.onDemandPublisherCloseTimer>>

C40_Step(c) ==
  LET a == clients[c].target
  IN (PathAddReader(c) /\ isReady(actors[a]) /\ c \in actors[a].readers) =>
       /\ \E i \in DOMAIN out'.replies :
            /\ out'.replies[i].to = c /\ out'.replies[i].by = a
            /\ out'.replies[i].res = ResStream(actors[a].stream)
       /\ \A i \in DOMAIN out'.replies : out'.replies[i].res.err = ""
       /\ actors'[a].readers = actors[a].readers
       /\ actors'[a].stream = actors[a].stream
       /\ OnDemandFields(actors'[a]) = OnDemandFields(actors[a])

\* C40: an AddReader handled by a ready actor for an author that is among its
\* readers already is answered with the current stream and changes neither the
\* readers nor the on-demand machines and timers, whatever MaxReaders is.
C40_AddReaderIdempotent == [][\A c \in Readers : C40_Step(c)]_vars

\* A reader of a path whose reader set is full has called AddReader once more
\* and was given the stream.
C40_Witness ==
  \E c \in Readers, a \in ActorIds :
    /\ Logged("isReader")
    /\ c \in actors[a].readers /\ isReady(actors[a])
    /\ actors[a].conf.maxReaders # 0
    /\ Cardinality(actors[a].readers) >= actors[a].conf.maxReaders
    /\ \E i \in DOMAIN out.replies :
         /\ out.replies[i].to = c /\ out.replies[i].by = a
         /\ out.replies[i].res = ResStream(actors[a].stream)

====
